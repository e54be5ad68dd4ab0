------------------------------ MODULE StoreProofs ------------------------------
(***************************************************************************)
(* The platform's database implements the store the tests run against:     *)
(* for any number of organizations, products, versions, jobs, workers and  *)
(* demos, every transaction is, to whoever reads, one call of that store   *)
(* or nothing at all.                                                      *)
(***************************************************************************)
EXTENDS PostgresStore, TLAPS

-----------------------------------------------------------------------------
(* The shape of the rows, and the keys that tie them together. *)

Row(r, fields) == r = [f \in fields |-> r[f]]
Tables == {"products", "roles", "versions", "tasks", "journeys", "coverage", "types", "screens", "moves", "plays", "training", "jobs",
           "artifacts", "sessions", "credentials", "grants", "feedback"}
Keys == UNION {DOMAIN m.journeys : m \in Delivered}
JourneyRefs == Versions \X Keys \X RoleKeys
Requests ==
  [kind : {"review"}, org : Orgs, of : JourneyRefs, rework : BOOLEAN] \cup [kind : {"rework"}, org : Orgs, of : JourneyRefs]
  \cup [kind : {"publish"}, org : Orgs, of : Versions] \cup [kind : {"map"}, org : Orgs, of : Versions \X RoleKeys]
  \cup [kind : {"control"}, org : Orgs, of : JobIds] \cup [kind : {"demo"}, org : Orgs, of : Versions, by : WorkerIds]
  \cup [kind : {"signal"}, org : Orgs, of : Sessions]

WorkOK ==
  /\ Row(work, {"requests", "serving", "hosting", "calls"})
  /\ work.requests \subseteq Requests
  /\ work.serving \in [WorkerIds -> JobIds \cup {Null}]

ProductOK(p) ==
  LET x == db.products[p] IN
  /\ Row(x, {"org", "key", "active"}) /\ x.org \in Orgs
  /\ \/ x.active = Null
     \/ x.active \in DOMAIN db.versions /\ db.versions[x.active].product = p /\ db.versions[x.active].status = "published"
ProductsOK ==
  /\ DOMAIN db.products \subseteq Products
  /\ \A p \in DOMAIN db.products : ProductOK(p)
RolesOK ==
  /\ \A r \in db.roles : Row(r, {"product", "key", "credential"}) /\ r.product \in DOMAIN db.products
  /\ \A r, s \in db.roles : r.product = s.product /\ r.key = s.key => r = s
VersionOK(v) ==
  LET x == db.versions[v] IN
  /\ Row(x, {"org", "product", "n", "status"})
  /\ x.product \in DOMAIN db.products /\ x.org = db.products[x.product].org
VersionsOK ==
  /\ DOMAIN db.versions \subseteq Versions
  /\ \A v \in DOMAIN db.versions : VersionOK(v)

JourneyFields == {"version", "key", "role", "text", "rev", "approval", "approved"}
JourneyOK(j) == Row(j, JourneyFields) /\ Id(j) \in (DOMAIN db.versions) \X Keys \X RoleKeys /\ j.rev \in Nat
JourneysOK ==
  /\ \A j \in db.journeys : JourneyOK(j)
  /\ \A i, j \in db.journeys : Id(i) = Id(j) => i = j
\* What a journey's row covers it names.
CoveredBy(c, j) == j.version = c.version /\ j.key = c.key /\ j.role = c.role
CoverageOK ==
  \A c \in db.coverage :
    /\ Row(c, {"version", "role", "key"})
    /\ [version |-> c.version, key |-> c.key] \in db.tasks
    /\ \E j \in db.journeys : CoveredBy(c, j)
Versioned(rows, fields) == \A x \in rows : Row(x, fields) /\ x.version \in DOMAIN db.versions
\* A screen has a type, and a type's words are those of some map.
Worded(k) == \E m \in Maps : k[2] \in DOMAIN m.screens /\ db.types[k] = m.screens[k[2]]
TypesOK ==
  /\ \A s \in db.screens : <<s.version, s.screen>> \in DOMAIN db.types
  /\ \A k \in DOMAIN db.types : k = <<k[1], k[2]>> /\ Worded(k)
PartsOK ==
  /\ TypesOK
  /\ Versioned(db.screens, {"version", "role", "screen"})
  /\ Versioned(db.moves, {"version", "role", "from", "to"})
  /\ Versioned(db.plays, {"version", "id", "approved"})

JobOK(j) ==
  LET x == db.jobs[j] IN
  /\ Row(x, {"org", "product", "version", "role", "status", "owner", "live"})
  /\ x.org \in Orgs /\ x.product \in Products /\ x.version \in Versions /\ x.role \in RoleKeys
  /\ x.owner \in WorkerIds \cup {Null} /\ x.live \in BOOLEAN
  /\ x.owner # Null => x.status = "running"
  /\ x.live => x.owner # Null
JobsOK ==
  /\ DOMAIN db.jobs \subseteq JobIds
  /\ \A j \in DOMAIN db.jobs : JobOK(j)
ArtifactsOK ==
  /\ DOMAIN db.artifacts \subseteq DOMAIN db.jobs
  /\ \A j \in DOMAIN db.artifacts : db.artifacts[j] \in Delivered
\* What is kept of a removed product belongs to no job that is left.
KeptOK ==
  /\ DOMAIN kept.leases \cup DOMAIN kept.artifacts \subseteq kept.ids
  /\ (DOMAIN kept.leases \cup DOMAIN kept.artifacts) \cap DOMAIN db.jobs = {}
SessionOK(s) ==
  LET x == db.sessions[s] IN
  /\ Row(x, {"org", "product", "version", "status", "worker", "live"})
  /\ x.org \in Orgs /\ x.product \in Products
SessionsOK ==
  /\ db.sessions = [s \in DOMAIN db.sessions |-> db.sessions[s]]
  /\ \A s \in DOMAIN db.sessions : SessionOK(s)
GrantsOK ==
  /\ DOMAIN db.grants \subseteq Grants
  /\ \A g \in DOMAIN db.grants : Row(db.grants[g], {"org", "product", "role", "revoked"})

Inv ==
  /\ Row(db, Tables) /\ WorkOK /\ Row(kept, {"leases", "artifacts", "grants", "training", "ids"})
  /\ ProductsOK /\ RolesOK /\ VersionsOK /\ JourneysOK /\ CoverageOK /\ PartsOK
  /\ JobsOK /\ ArtifactsOK /\ KeptOK /\ SessionsOK /\ GrantsOK /\ read = Read

-----------------------------------------------------------------------------
(* What a caller reads, part by part. *)

ViewedProduct(p) ==
  [org |-> db.products[p].org, key |-> db.products[p].key, active |-> db.products[p].active,
   roles |-> [k \in {r.key : r \in RolesOf(p)} |-> (CHOOSE r \in RolesOf(p) : r.key = k).credential]]
ViewedProducts == [p \in DOMAIN db.products |-> ViewedProduct(p)]
ViewedCatalogs == [v \in DOMAIN db.versions |-> Compared(v)]
ViewedJobs == [j \in DOMAIN db.jobs |-> Without(db.jobs[j], {"owner", "live"})]
ViewedLeases == Over(Leases, kept.leases)
ViewedArtifacts == Over(db.artifacts, kept.artifacts)
ViewedGrants == Over(db.grants, kept.grants)
ViewedTraining == Over(db.training, kept.training)

\* What a caller reads is made of these parts.
LEMMA ReadParts ==
  Read = [products |-> ViewedProducts, catalogs |-> ViewedCatalogs, jobs |-> ViewedJobs, leases |-> ViewedLeases,
          artifacts |-> ViewedArtifacts, sessions |-> db.sessions, credentials |-> db.credentials, grants |-> ViewedGrants,
          feedback |-> db.feedback, training |-> ViewedTraining]
BY DEF Read, ViewedProducts, ViewedProduct, ViewedCatalogs, ViewedJobs, ViewedLeases, ViewedArtifacts, ViewedGrants, ViewedTraining

\* And so it is after a step.
LEMMA ReadPartsAfter ==
  Read' = [products |-> ViewedProducts', catalogs |-> ViewedCatalogs', jobs |-> ViewedJobs', leases |-> ViewedLeases',
           artifacts |-> ViewedArtifacts', sessions |-> db'.sessions, credentials |-> db'.credentials, grants |-> ViewedGrants',
           feedback |-> db'.feedback, training |-> ViewedTraining']
BY DEF Read, ViewedProducts, ViewedProduct, ViewedCatalogs, ViewedJobs, ViewedLeases, ViewedArtifacts, ViewedGrants, ViewedTraining

\* What is seen of products depends on their rows and roles alone.
LEMMA SameProducts ==
  ASSUME db'.products = db.products, db'.roles = db.roles PROVE ViewedProducts' = ViewedProducts
BY DEF ViewedProducts, ViewedProduct, RolesOf
W(x) == Without(x, {"version"})
SeenOf(R) == {W(x) : x \in R}
Seen(rows, v) == SeenOf(Of(rows, v))
\* A screen as it is compared.
Told(s) == [role |-> s.role, screen |-> s.screen, about |-> Said(s.screen, db.types[<<s.version, s.screen>>])]
SeenScreens(v) == {Told(s) : s \in Of(db.screens, v)}
\* What is seen of a version gathers its rows.
LEMMA ComparedIs ==
  ASSUME NEW v
  PROVE  Compared(v) = [org |-> db.versions[v].org, product |-> db.versions[v].product, n |-> db.versions[v].n, status |-> db.versions[v].status,
                        journeys |-> Seen(db.journeys, v), coverage |-> Seen(db.coverage, v), screens |-> SeenScreens(v),
                        moves |-> Seen(db.moves, v), plays |-> Seen(db.plays, v)]
<1>1. \A s : [DescribedScreen(s) EXCEPT !.about = Said(DescribedScreen(s).screen, @)] = Told(s)
  BY DEF DescribedScreen, Told
<1>2. {[x EXCEPT !.about = Said(x.screen, @)] : x \in Snapshot(v).screens} = SeenScreens(v)
  BY <1>1 DEF SeenScreens, Snapshot
<1>3. Compared(v) = [Snapshot(v) EXCEPT !.screens = SeenScreens(v)]
  BY <1>2 DEF Compared
<1>4. QED
  BY <1>3 DEF Snapshot, Seen, SeenOf, W
\* And so it does after a step.
LEMMA ComparedAfter ==
  ASSUME NEW v
  PROVE  Compared(v)' = [org |-> db'.versions[v].org, product |-> db'.versions[v].product, n |-> db'.versions[v].n, status |-> db'.versions[v].status,
                         journeys |-> Seen(db'.journeys, v), coverage |-> Seen(db'.coverage, v), screens |-> SeenScreens(v)',
                         moves |-> Seen(db'.moves, v), plays |-> Seen(db'.plays, v)]
<1>1. \A s : [DescribedScreen(s)' EXCEPT !.about = Said(DescribedScreen(s)'.screen, @)] = Told(s)'
  BY DEF DescribedScreen, Told
<1>2. {[x EXCEPT !.about = Said(x.screen, @)] : x \in Snapshot(v)'.screens} = SeenScreens(v)'
  BY <1>1 DEF SeenScreens, Snapshot
<1>3. Compared(v)' = [Snapshot(v)' EXCEPT !.screens = SeenScreens(v)']
  BY <1>2 DEF Compared
<1>4. QED
  BY <1>3 DEF Snapshot, Seen, SeenOf, W
\* What is seen of screens depends on their rows and on what is said of these.
LEMMA SameScreens ==
  ASSUME NEW v, Of(db'.screens, v) = Of(db.screens, v),
         \A s \in Of(db.screens, v) : db'.types[<<s.version, s.screen>>] = db.types[<<s.version, s.screen>>]
  PROVE  SeenScreens(v)' = SeenScreens(v)
BY DEF SeenScreens, Told
\* What is seen of a version depends on its own rows alone.
LEMMA SameSnapshot ==
  ASSUME NEW v, db'.versions[v] = db.versions[v],
         \A s \in Of(db.screens, v) : db'.types[<<s.version, s.screen>>] = db.types[<<s.version, s.screen>>],
         Of(db'.journeys, v) = Of(db.journeys, v), Of(db'.coverage, v) = Of(db.coverage, v),
         Of(db'.screens, v) = Of(db.screens, v), Of(db'.moves, v) = Of(db.moves, v), Of(db'.plays, v) = Of(db.plays, v)
  PROVE  Compared(v)' = Compared(v)
<1>1. SeenScreens(v)' = SeenScreens(v)
  BY SameScreens
<1>2. QED
  BY <1>1, ComparedIs, ComparedAfter DEF Seen
\* What is seen of the catalogs depends on seven tables.
LEMMA SameCatalogs ==
  ASSUME db'.versions = db.versions, db'.journeys = db.journeys, db'.coverage = db.coverage,
         db'.types = db.types, db'.screens = db.screens, db'.moves = db.moves, db'.plays = db.plays
  PROVE  ViewedCatalogs' = ViewedCatalogs
BY SameSnapshot DEF ViewedCatalogs
\* What is seen of jobs depends on their rows alone.
LEMMA SameJobs == ASSUME db'.jobs = db.jobs PROVE ViewedJobs' = ViewedJobs
BY DEF ViewedJobs
\* Leases come from the jobs' rows and from what is kept.
LEMMA SameLeases == ASSUME db'.jobs = db.jobs, kept' = kept PROVE ViewedLeases' = ViewedLeases
BY DEF ViewedLeases, Leases

-----------------------------------------------------------------------------
(* A part of the invariant holds on while its tables stay as they are. *)

\* An active version stays its product's published one.
LEMMA KeepProducts == ASSUME ProductsOK, db'.products = db.products, db'.versions = db.versions PROVE ProductsOK'
BY DEF ProductsOK, ProductOK
\* Roles stay those of products there are, one to a key.
LEMMA KeepRoles == ASSUME RolesOK, db'.roles = db.roles, DOMAIN db.products \subseteq DOMAIN db'.products PROVE RolesOK'
BY DEF RolesOK
\* Versions stay those of their product's organization.
LEMMA KeepVersions == ASSUME VersionsOK, db'.versions = db.versions, db'.products = db.products PROVE VersionsOK'
BY DEF VersionsOK, VersionOK
\* A journey stays the only one of its version, key and role.
LEMMA KeepJourneys == ASSUME JourneysOK, db'.journeys = db.journeys, DOMAIN db.versions \subseteq DOMAIN db'.versions PROVE JourneysOK'
BY DEF JourneysOK, JourneyOK, Id
\* What is covered keeps its task and its journey.
LEMMA KeepCoverage == ASSUME CoverageOK, db'.coverage = db.coverage, db'.tasks = db.tasks, db'.journeys = db.journeys PROVE CoverageOK'
BY DEF CoverageOK
\* Screens keep their types, and with moves and plays stay those of versions there are.
LEMMA KeepParts ==
  ASSUME PartsOK, db'.types = db.types, db'.screens = db.screens, db'.moves = db.moves, db'.plays = db.plays, DOMAIN db.versions \subseteq DOMAIN db'.versions
  PROVE  PartsOK'
BY DEF PartsOK, TypesOK, Worded, Versioned
\* Jobs keep their shape, and their leases a running status.
LEMMA KeepJobs == ASSUME JobsOK, db'.jobs = db.jobs PROVE JobsOK'
BY DEF JobsOK, JobOK
\* Artifacts stay those of jobs there are.
LEMMA KeepArtifacts ==
  ASSUME ArtifactsOK, db'.artifacts = db.artifacts, DOMAIN db.jobs \subseteq DOMAIN db'.jobs PROVE ArtifactsOK'
BY DEF ArtifactsOK
\* What is kept stays apart from the jobs there are.
LEMMA KeepKept == ASSUME KeptOK, kept' = kept, DOMAIN db'.jobs = DOMAIN db.jobs PROVE KeptOK'
BY DEF KeptOK
\* Sessions keep their shape.
LEMMA KeepSessions == ASSUME SessionsOK, db'.sessions = db.sessions PROVE SessionsOK'
BY DEF SessionsOK, SessionOK
\* Grants keep their shape.
LEMMA KeepGrants == ASSUME GrantsOK, db'.grants = db.grants PROVE GrantsOK'
BY DEF GrantsOK

-----------------------------------------------------------------------------
(* Transactions that write one table. *)

\* Saving a table changes no other.
LEMMA OneTable ==
  ASSUME Row(db, Tables), NEW t \in Tables, NEW rows, Saves(t, rows)
  PROVE  db'[t] = rows /\ (\A u \in Tables \ {t} : db'[u] = db[u]) /\ Row(db', Tables)
BY DEF Saves, Row

\* Writing sessions changes what is read of sessions alone.
LEMMA OnlySessions ==
  ASSUME Inv, NEW rows, Saves("sessions", rows), WorkOK', UNCHANGED kept, read' = Read', SessionsOK'
  PROVE  Inv' /\ read' = [read EXCEPT !.sessions = rows]
<1>1. db'.sessions = rows /\ (\A u \in Tables \ {"sessions"} : db'[u] = db[u]) /\ Row(db', Tables)
  BY OneTable DEF Inv, Tables
<1>2. Inv'
  BY <1>1, KeepProducts, KeepRoles, KeepVersions, KeepJourneys, KeepCoverage, KeepParts, KeepJobs, KeepArtifacts, KeepKept, KeepGrants DEF Inv, Tables
<1>3. ViewedProducts' = ViewedProducts /\ ViewedCatalogs' = ViewedCatalogs /\ ViewedJobs' = ViewedJobs /\ ViewedLeases' = ViewedLeases
  BY <1>1, SameProducts, SameCatalogs, SameJobs, SameLeases DEF Tables
<1>4. db'.sessions = rows /\ db'.credentials = db.credentials /\ db'.feedback = db.feedback /\ ViewedArtifacts' = ViewedArtifacts /\ ViewedGrants' = ViewedGrants /\ ViewedTraining' = ViewedTraining
  BY <1>1 DEF Tables, ViewedArtifacts, ViewedGrants, ViewedTraining
<1>5. QED
  BY <1>1, <1>2, <1>3, <1>4, ReadParts, ReadPartsAfter DEF Inv, Tables

\* Writing what was learned changes what is read of it alone.
LEMMA OnlyTraining ==
  ASSUME Inv, NEW rows, Saves("training", rows), WorkOK', UNCHANGED kept, read' = Read'
  PROVE  Inv' /\ read' = [read EXCEPT !.training = Over(rows, kept.training)]
<1>1. db'.training = rows /\ (\A u \in Tables \ {"training"} : db'[u] = db[u]) /\ Row(db', Tables)
  BY OneTable DEF Inv, Tables
<1>2. Inv'
  BY <1>1, KeepProducts, KeepRoles, KeepVersions, KeepJourneys, KeepCoverage, KeepParts, KeepJobs, KeepArtifacts, KeepKept, KeepSessions, KeepGrants DEF Inv, Tables
<1>3. ViewedProducts' = ViewedProducts /\ ViewedCatalogs' = ViewedCatalogs /\ ViewedJobs' = ViewedJobs /\ ViewedLeases' = ViewedLeases
  BY <1>1, SameProducts, SameCatalogs, SameJobs, SameLeases DEF Tables
<1>4. db'.sessions = db.sessions /\ db'.credentials = db.credentials /\ db'.feedback = db.feedback /\ ViewedArtifacts' = ViewedArtifacts /\ ViewedGrants' = ViewedGrants /\ ViewedTraining' = Over(rows, kept.training)
  BY <1>1 DEF Tables, ViewedArtifacts, ViewedGrants, ViewedTraining
<1>5. QED
  BY <1>1, <1>2, <1>3, <1>4, ReadParts, ReadPartsAfter DEF Inv, Tables

\* Writing artifacts changes what is read of artifacts alone.
LEMMA OnlyArtifacts ==
  ASSUME Inv, NEW rows, Saves("artifacts", rows), WorkOK', UNCHANGED kept, read' = Read', ArtifactsOK'
  PROVE  Inv' /\ read' = [read EXCEPT !.artifacts = Over(rows, kept.artifacts)]
<1>1. db'.artifacts = rows /\ (\A u \in Tables \ {"artifacts"} : db'[u] = db[u]) /\ Row(db', Tables)
  BY OneTable DEF Inv, Tables
<1>2. Inv'
  BY <1>1, KeepProducts, KeepRoles, KeepVersions, KeepJourneys, KeepCoverage, KeepParts, KeepJobs, KeepKept, KeepSessions, KeepGrants DEF Inv, Tables
<1>3. ViewedProducts' = ViewedProducts /\ ViewedCatalogs' = ViewedCatalogs /\ ViewedJobs' = ViewedJobs /\ ViewedLeases' = ViewedLeases
  BY <1>1, SameProducts, SameCatalogs, SameJobs, SameLeases DEF Tables
<1>4. db'.sessions = db.sessions /\ db'.credentials = db.credentials /\ db'.feedback = db.feedback /\ ViewedArtifacts' = Over(rows, kept.artifacts) /\ ViewedGrants' = ViewedGrants /\ ViewedTraining' = ViewedTraining
  BY <1>1 DEF Tables, ViewedArtifacts, ViewedGrants, ViewedTraining
<1>5. QED
  BY <1>1, <1>2, <1>3, <1>4, ReadParts, ReadPartsAfter DEF Inv, Tables

\* Writing credentials changes what is read of credentials alone.
LEMMA OnlyCredentials ==
  ASSUME Inv, NEW rows, Saves("credentials", rows), WorkOK', UNCHANGED kept, read' = Read'
  PROVE  Inv' /\ read' = [read EXCEPT !.credentials = rows]
<1>1. db'.credentials = rows /\ (\A u \in Tables \ {"credentials"} : db'[u] = db[u]) /\ Row(db', Tables)
  BY OneTable DEF Inv, Tables
<1>2. Inv'
  BY <1>1, KeepProducts, KeepRoles, KeepVersions, KeepJourneys, KeepCoverage, KeepParts, KeepJobs, KeepArtifacts, KeepKept, KeepSessions, KeepGrants DEF Inv, Tables
<1>3. ViewedProducts' = ViewedProducts /\ ViewedCatalogs' = ViewedCatalogs /\ ViewedJobs' = ViewedJobs /\ ViewedLeases' = ViewedLeases
  BY <1>1, SameProducts, SameCatalogs, SameJobs, SameLeases DEF Tables
<1>4. db'.sessions = db.sessions /\ db'.credentials = rows /\ db'.feedback = db.feedback /\ ViewedArtifacts' = ViewedArtifacts /\ ViewedGrants' = ViewedGrants /\ ViewedTraining' = ViewedTraining
  BY <1>1 DEF Tables, ViewedArtifacts, ViewedGrants, ViewedTraining
<1>5. QED
  BY <1>1, <1>2, <1>3, <1>4, ReadParts, ReadPartsAfter DEF Inv, Tables

\* Writing grants changes what is read of grants alone.
LEMMA OnlyGrants ==
  ASSUME Inv, NEW rows, Saves("grants", rows), WorkOK', UNCHANGED kept, read' = Read', GrantsOK'
  PROVE  Inv' /\ read' = [read EXCEPT !.grants = Over(rows, kept.grants)]
<1>1. db'.grants = rows /\ (\A u \in Tables \ {"grants"} : db'[u] = db[u]) /\ Row(db', Tables)
  BY OneTable DEF Inv, Tables
<1>2. Inv'
  BY <1>1, KeepProducts, KeepRoles, KeepVersions, KeepJourneys, KeepCoverage, KeepParts, KeepJobs, KeepArtifacts, KeepKept, KeepSessions DEF Inv, Tables
<1>3. ViewedProducts' = ViewedProducts /\ ViewedCatalogs' = ViewedCatalogs /\ ViewedJobs' = ViewedJobs /\ ViewedLeases' = ViewedLeases
  BY <1>1, SameProducts, SameCatalogs, SameJobs, SameLeases DEF Tables
<1>4. db'.sessions = db.sessions /\ db'.credentials = db.credentials /\ db'.feedback = db.feedback /\ ViewedArtifacts' = ViewedArtifacts /\ ViewedGrants' = Over(rows, kept.grants) /\ ViewedTraining' = ViewedTraining
  BY <1>1 DEF Tables, ViewedArtifacts, ViewedGrants, ViewedTraining
<1>5. QED
  BY <1>1, <1>2, <1>3, <1>4, ReadParts, ReadPartsAfter DEF Inv, Tables

\* Writing feedback changes what is read of feedback alone.
LEMMA OnlyFeedback ==
  ASSUME Inv, NEW rows, Saves("feedback", rows), WorkOK', UNCHANGED kept, read' = Read'
  PROVE  Inv' /\ read' = [read EXCEPT !.feedback = rows]
<1>1. db'.feedback = rows /\ (\A u \in Tables \ {"feedback"} : db'[u] = db[u]) /\ Row(db', Tables)
  BY OneTable DEF Inv, Tables
<1>2. Inv'
  BY <1>1, KeepProducts, KeepRoles, KeepVersions, KeepJourneys, KeepCoverage, KeepParts, KeepJobs, KeepArtifacts, KeepKept, KeepSessions, KeepGrants DEF Inv, Tables
<1>3. ViewedProducts' = ViewedProducts /\ ViewedCatalogs' = ViewedCatalogs /\ ViewedJobs' = ViewedJobs /\ ViewedLeases' = ViewedLeases
  BY <1>1, SameProducts, SameCatalogs, SameJobs, SameLeases DEF Tables
<1>4. db'.sessions = db.sessions /\ db'.credentials = db.credentials /\ db'.feedback = rows /\ ViewedArtifacts' = ViewedArtifacts /\ ViewedGrants' = ViewedGrants /\ ViewedTraining' = ViewedTraining
  BY <1>1 DEF Tables, ViewedArtifacts, ViewedGrants, ViewedTraining
<1>5. QED
  BY <1>1, <1>2, <1>3, <1>4, ReadParts, ReadPartsAfter DEF Inv, Tables

\* Writing plays changes what is read of catalogs alone.
LEMMA OnlyPlays ==
  ASSUME Inv, NEW rows, Saves("plays", rows), WorkOK', UNCHANGED kept, read' = Read', PartsOK'
  PROVE  Inv' /\ read' = [read EXCEPT !.catalogs = ViewedCatalogs']
<1>1. db'.plays = rows /\ (\A u \in Tables \ {"plays"} : db'[u] = db[u]) /\ Row(db', Tables)
  BY OneTable DEF Inv, Tables
<1>2. Inv'
  BY <1>1, KeepProducts, KeepRoles, KeepVersions, KeepJourneys, KeepCoverage, KeepJobs, KeepArtifacts, KeepKept, KeepSessions, KeepGrants DEF Inv, Tables
<1>3. ViewedProducts' = ViewedProducts /\ ViewedJobs' = ViewedJobs /\ ViewedLeases' = ViewedLeases
  BY <1>1, SameProducts, SameJobs, SameLeases DEF Tables
<1>4. db'.sessions = db.sessions /\ db'.credentials = db.credentials /\ db'.feedback = db.feedback /\ ViewedArtifacts' = ViewedArtifacts /\ ViewedGrants' = ViewedGrants /\ ViewedTraining' = ViewedTraining
  BY <1>1 DEF Tables, ViewedArtifacts, ViewedGrants, ViewedTraining
<1>5. QED
  BY <1>1, <1>2, <1>3, <1>4, ReadParts, ReadPartsAfter DEF Inv, Tables

\* Writing journeys changes what is read of catalogs alone.
LEMMA OnlyJourneys ==
  ASSUME Inv, NEW rows, Saves("journeys", rows), WorkOK', UNCHANGED kept, read' = Read', JourneysOK', CoverageOK'
  PROVE  Inv' /\ read' = [read EXCEPT !.catalogs = ViewedCatalogs']
<1>1. db'.journeys = rows /\ (\A u \in Tables \ {"journeys"} : db'[u] = db[u]) /\ Row(db', Tables)
  BY OneTable DEF Inv, Tables
<1>2. Inv'
  BY <1>1, KeepProducts, KeepRoles, KeepVersions, KeepParts, KeepJobs, KeepArtifacts, KeepKept, KeepSessions, KeepGrants DEF Inv, Tables
<1>3. ViewedProducts' = ViewedProducts /\ ViewedJobs' = ViewedJobs /\ ViewedLeases' = ViewedLeases
  BY <1>1, SameProducts, SameJobs, SameLeases DEF Tables
<1>4. db'.sessions = db.sessions /\ db'.credentials = db.credentials /\ db'.feedback = db.feedback /\ ViewedArtifacts' = ViewedArtifacts /\ ViewedGrants' = ViewedGrants /\ ViewedTraining' = ViewedTraining
  BY <1>1 DEF Tables, ViewedArtifacts, ViewedGrants, ViewedTraining
<1>5. QED
  BY <1>1, <1>2, <1>3, <1>4, ReadParts, ReadPartsAfter DEF Inv, Tables

\* Writing roles changes what is read of products alone.
LEMMA OnlyRoles ==
  ASSUME Inv, NEW rows, Saves("roles", rows), WorkOK', UNCHANGED kept, read' = Read', RolesOK'
  PROVE  Inv' /\ read' = [read EXCEPT !.products = ViewedProducts']
<1>1. db'.roles = rows /\ (\A u \in Tables \ {"roles"} : db'[u] = db[u]) /\ Row(db', Tables)
  BY OneTable DEF Inv, Tables
<1>2. Inv'
  BY <1>1, KeepProducts, KeepVersions, KeepJourneys, KeepCoverage, KeepParts, KeepJobs, KeepArtifacts, KeepKept, KeepSessions, KeepGrants DEF Inv, Tables
<1>3. ViewedCatalogs' = ViewedCatalogs /\ ViewedJobs' = ViewedJobs /\ ViewedLeases' = ViewedLeases
  BY <1>1, SameCatalogs, SameJobs, SameLeases DEF Tables
<1>4. db'.sessions = db.sessions /\ db'.credentials = db.credentials /\ db'.feedback = db.feedback /\ ViewedArtifacts' = ViewedArtifacts /\ ViewedGrants' = ViewedGrants /\ ViewedTraining' = ViewedTraining
  BY <1>1 DEF Tables, ViewedArtifacts, ViewedGrants, ViewedTraining
<1>5. QED
  BY <1>1, <1>2, <1>3, <1>4, ReadParts, ReadPartsAfter DEF Inv, Tables

\* Records that differ in two fields.
LEMMA TwoFields ==
  ASSUME NEW F, NEW f \in F, NEW g \in F, f # g, NEW r, NEW s, Row(r, F), Row(s, F), \A h \in F \ {f, g} : s[h] = r[h]
  PROVE  s = [r EXCEPT ![f] = s[f], ![g] = s[g]]
BY DEF Row
\* Writing jobs changes what is read of jobs and of leases alone.
LEMMA OnlyJobs ==
  ASSUME Inv, NEW rows, Saves("jobs", rows), WorkOK', UNCHANGED kept, read' = Read', JobsOK', ArtifactsOK', KeptOK'
  PROVE  Inv' /\ read' = [read EXCEPT !.jobs = ViewedJobs', !.leases = ViewedLeases']
<1>1. db'.jobs = rows /\ (\A u \in Tables \ {"jobs"} : db'[u] = db[u]) /\ Row(db', Tables)
  BY OneTable DEF Inv, Tables
<1>2. Inv'
  BY <1>1, KeepProducts, KeepRoles, KeepVersions, KeepJourneys, KeepCoverage, KeepParts, KeepSessions, KeepGrants DEF Inv, Tables
<1>3. ViewedProducts' = ViewedProducts /\ ViewedCatalogs' = ViewedCatalogs
  BY <1>1, SameProducts, SameCatalogs DEF Tables
<1>4. db'.sessions = db.sessions /\ db'.credentials = db.credentials /\ db'.feedback = db.feedback /\ ViewedArtifacts' = ViewedArtifacts /\ ViewedGrants' = ViewedGrants /\ ViewedTraining' = ViewedTraining
  BY <1>1 DEF Tables, ViewedArtifacts, ViewedGrants, ViewedTraining
<1>5. read = Read /\ read' = Read'
  BY DEF Inv
<1> DEFINE F == {"products", "catalogs", "jobs", "leases", "artifacts", "sessions", "credentials", "grants", "feedback", "training"}
<1>6. Row(read, F) /\ Row(read', F)
  BY <1>5, ReadParts, ReadPartsAfter DEF Row
<1>7. \A h \in F \ {"jobs", "leases"} : read'[h] = read[h]
  BY <1>3, <1>4, <1>5, ReadParts, ReadPartsAfter
<1>8. read'.jobs = ViewedJobs' /\ read'.leases = ViewedLeases'
  BY <1>5, ReadPartsAfter
<1>9. read' = [read EXCEPT !["jobs"] = read'["jobs"], !["leases"] = read'["leases"]]
  BY <1>6, <1>7, TwoFields
<1>10. QED
  BY <1>2, <1>8, <1>9

-----------------------------------------------------------------------------
(* The calls of the store in memory. *)

\* The calls of the store are its steps: a product is created,
LEMMA ByCreateProduct ==
  ASSUME NEW o \in Orgs, NEW p \in Products, NEW k \in ProductKeys
  PROVE  P!CreateProduct(o, p, k) => P!StoreNext
BY DEF P!StoreNext
\* a product is removed,
LEMMA ByRemoveProduct ==
  ASSUME NEW o \in Orgs, NEW p \in Products
  PROVE  P!RemoveProduct(o, p) => P!StoreNext
BY DEF P!StoreNext
\* a version is drafted,
LEMMA ByCreateDraft ==
  ASSUME NEW o \in Orgs, NEW p \in Products, NEW v \in Versions
  PROVE  P!CreateDraft(o, p, v) => P!StoreNext
BY DEF P!StoreNext
\* a role is saved,
LEMMA BySaveRoleProfile ==
  ASSUME NEW o \in Orgs, NEW p \in Products, NEW k \in RoleKeys, NEW c \in Credentials \cup {Null}
  PROVE  P!SaveRoleProfile(o, p, k, c) => P!StoreNext
BY DEF P!StoreNext
\* a grant is saved,
LEMMA BySaveEmbedGrant ==
  ASSUME NEW o \in Orgs, NEW p \in Products, NEW g \in Grants, NEW k \in RoleKeys
  PROVE  P!SaveEmbedGrant(o, g, p, k) => P!StoreNext
BY DEF P!StoreNext
\* feedback is saved,
LEMMA BySaveFeedback ==
  ASSUME NEW o \in Orgs, NEW p \in Products, NEW f \in SignalIds, NEW s \in Sessions
  PROVE  P!SaveFeedback(o, f, p, s) => P!StoreNext
BY DEF P!StoreNext
\* a job is queued,
LEMMA ByEnqueue ==
  ASSUME NEW o \in Orgs, NEW p \in Products, NEW j \in JobIds, NEW v \in Versions, NEW r \in RoleKeys
  PROVE  P!Enqueue(o, j, p, v, r) => P!StoreNext
BY DEF P!StoreNext
\* a session is created,
LEMMA ByCreateSession ==
  ASSUME NEW o \in Orgs, NEW p \in Products, NEW s \in Sessions, NEW v \in Versions, NEW w \in WorkerIds
  PROVE  P!CreateSession(o, s, p, v, w) => P!StoreNext
BY DEF P!StoreNext
\* something is learned,
LEMMA ByAppendTraining ==
  ASSUME NEW o \in Orgs, NEW p \in Products, NEW e \in Events, NEW j \in JobIds \cup {Null}, NEW journey \in JourneyRefs \cup {<<>>}
  PROVE  P!AppendTraining(o, e, p, j, journey) => P!StoreNext
BY DEF P!JourneyIds, JourneyRefs, Keys, Delivered, P!StoreNext
\* a version is published,
LEMMA ByPublish ==
  ASSUME NEW o \in Orgs, NEW v \in Versions
  PROVE  P!Publish(o, v) => P!StoreNext
BY DEF P!StoreNext
\* a journey is reviewed,
LEMMA ByReviewJourney ==
  ASSUME NEW o \in Orgs, NEW v \in DOMAIN read.catalogs \cap Versions, NEW d \in Decisions
  PROVE  \A j \in read.catalogs[v].journeys : P!ReviewJourney(o, v, j, d) => P!StoreNext
BY DEF Decisions, P!StoreNext
\* a play is saved,
LEMMA BySaveSalesPlay ==
  ASSUME NEW o \in Orgs, NEW v \in Versions, NEW n \in Plays, NEW approved \in BOOLEAN
  PROVE  P!SaveSalesPlay(o, v, [id |-> n, approved |-> approved]) => P!StoreNext
BY DEF P!StoreNext
\* a role is mapped,
LEMMA ByReplaceMappedCatalog ==
  ASSUME NEW o \in Orgs, NEW v \in Versions, NEW r \in RoleKeys, NEW m \in Delivered
  PROVE  P!ReplaceMappedCatalog(o, v, r, Undisputed(m)) => P!StoreNext
BY DEF P!StoreNext
\* a job is claimed,
LEMMA ByClaimJob ==
  ASSUME NEW o \in Orgs, NEW j \in JobIds, NEW w \in WorkerIds
  PROVE  P!ClaimJob(o, j, w) => P!StoreNext
BY DEF P!StoreNext
\* a job is saved,
LEMMA ByCheckpoint ==
  ASSUME NEW o \in Orgs, NEW j \in JobIds, NEW w \in WorkerIds, NEW status \in {"queued", "running", "completed", "failed"}
  PROVE  P!Checkpoint(o, j, w, status) => P!StoreNext
BY DEF P!StoreNext
\* a job is controlled,
LEMMA ByControlJob ==
  ASSUME NEW o \in Orgs, NEW j \in JobIds, NEW action \in DOMAIN ToStatus
  PROVE  P!ControlJob(o, j, action) => P!StoreNext
BY DEF P!To, ToStatus, P!StoreNext
\* a map is delivered,
LEMMA BySaveArtifact ==
  ASSUME NEW o \in Orgs, NEW j \in JobIds, NEW m \in Delivered
  PROVE  P!SaveArtifact(o, j, m) => P!StoreNext
BY DEF Delivered, P!StoreNext
\* a session is updated,
LEMMA ByUpdateSession ==
  ASSUME NEW o \in Orgs, NEW s \in Sessions, NEW w \in WorkerIds, NEW status \in {"active", "ended"}, NEW live \in BOOLEAN
  PROVE  P!UpdateSession(o, s, w, status, live) => P!StoreNext
BY DEF P!StoreNext
\* a lease lapses,
LEMMA ByLeaseLapses == ASSUME NEW o \in Orgs PROVE P!LeaseLapses => P!StoreNext
BY DEF P!StoreNext
\* a credential is saved,
LEMMA BySaveCredentialRef ==
  ASSUME NEW o \in Orgs, NEW c \in Credentials
  PROVE  P!SaveCredentialRef(o, c) => P!StoreNext
BY DEF P!StoreNext
\* a grant is revoked.
LEMMA ByRevokeEmbedGrant ==
  ASSUME NEW o \in Orgs, NEW g \in Grants
  PROVE  P!RevokeEmbedGrant(o, g) => P!StoreNext
BY DEF P!StoreNext

-----------------------------------------------------------------------------
(* What is under way stays well formed. *)

\* What each kind of request carries.
LEMMA RequestKinds ==
  ASSUME NEW f \in Requests
  PROVE  /\ f.org \in Orgs
         /\ f.kind = "review" => f.of \in JourneyRefs /\ f.rework \in BOOLEAN
         /\ f.kind = "rework" => f.of \in JourneyRefs
         /\ f.kind = "publish" => f.of \in Versions
         /\ f.kind = "map" => f.of \in Versions \X RoleKeys
         /\ f.kind = "control" => f.of \in JobIds
         /\ f.kind = "demo" => f.of \in Versions /\ f.by \in WorkerIds
         /\ f.kind = "signal" => f.of \in Sessions
BY DEF Requests
\* Counting a call leaves what is under way well formed.
LEMMA CalledOK == ASSUME WorkOK, Called PROVE WorkOK'
BY DEF WorkOK, Called, Row
\* So does a request that is taken on,
LEMMA AsksOK == ASSUME WorkOK, NEW f \in Requests, Asks(f) PROVE WorkOK'
BY DEF WorkOK, Asks, Row
\* one that is done,
LEMMA DoneOK == ASSUME WorkOK, NEW f, Done(f) PROVE WorkOK'
BY DEF WorkOK, Done, Row
\* a worker that takes or leaves a job,
LEMMA ServesOK == ASSUME WorkOK, NEW w \in WorkerIds, NEW j \in JobIds \cup {Null}, Serves(w, j) PROVE WorkOK'
BY DEF WorkOK, Serves, Row
\* and what touches none of it.
LEMMA SameWork == ASSUME WorkOK, UNCHANGED work PROVE WorkOK'
BY DEF WorkOK

\* Steps of one request that write nothing.
LEMMA Unwritten ==
  ASSUME Inv, UNCHANGED <<db, kept>>, read' = Read', WorkOK'
  PROVE  Inv' /\ UNCHANGED read
<1>1. Inv'
  BY KeepProducts, KeepRoles, KeepVersions, KeepJourneys, KeepCoverage, KeepParts, KeepJobs, KeepArtifacts, KeepKept, KeepSessions, KeepGrants DEF Inv
<1>2. ViewedProducts' = ViewedProducts /\ ViewedCatalogs' = ViewedCatalogs /\ ViewedJobs' = ViewedJobs /\ ViewedLeases' = ViewedLeases
  BY SameProducts, SameCatalogs, SameJobs, SameLeases
<1>3. ViewedArtifacts' = ViewedArtifacts /\ ViewedGrants' = ViewedGrants /\ ViewedTraining' = ViewedTraining
  BY DEF ViewedArtifacts, ViewedGrants, ViewedTraining
<1>4. QED
  BY <1>1, <1>2, <1>3, ReadParts, ReadPartsAfter DEF Inv

\* Between steps, what was read last is what the rows amount to.
LEMMA Reads ==
  ASSUME Inv
  PROVE  /\ read.products = ViewedProducts /\ read.catalogs = ViewedCatalogs /\ read.jobs = ViewedJobs /\ read.leases = ViewedLeases
         /\ read.artifacts = ViewedArtifacts /\ read.sessions = db.sessions /\ read.credentials = db.credentials
         /\ read.grants = ViewedGrants /\ read.feedback = db.feedback /\ read.training = ViewedTraining
BY ReadParts DEF Inv
\* Both modules put a value under an id in the same way.
LEMMA SamePut == \A f, k, v : P!Put(f, k, v) = Put(f, k, v)
BY DEF P!Put, Put
\* Putting a value over what is kept is putting it into what is read.
LEMMA PutOver == \A f, g, k, v : Over(Put(f, k, v), g) = Put(Over(f, g), k, v)
BY DEF Put, Over
\* An id that is drawn was never used, even of a product that is gone.
LEMMA DrawnFresh ==
  ASSUME NEW S, NEW t, NEW x \in Drawn(S, t) PROVE x \in S /\ x \notin DOMAIN db[t] /\ x \notin kept.ids
BY DEF Drawn
\* A value is stored under its id.
LEMMA StoredRow ==
  ASSUME NEW t \in {"training", "artifacts", "grants"}, NEW id, NEW row, NEW g,
         read[t] = Over(db[t], g), read' = [read EXCEPT ![t] = Over(Put(db[t], id, row), g)]
  PROVE  P!Saves(t, id, row)
<1>1. Over(Put(db[t], id, row), g) = P!Put(read[t], id, row)
  BY SamePut, PutOver
<1>2. QED
  BY <1>1 DEF P!Saves

\* A step is answered when the rows keep their shape and the store in memory
\* would have made the same call, or none that is seen.
Answered == Inv' /\ (P!StoreNext \/ UNCHANGED read)
\* Asking to publish writes nothing yet.
LEMMA PostPublishStep ==
  ASSUME Inv, read' = Read', NEW o \in Orgs, NEW v \in DOMAIN db.versions, PostPublish(o, v) PROVE Answered
<1>1. v \in Versions
  BY DEF Inv, VersionsOK
<1>2. [kind |-> "publish", org |-> o, of |-> v] \in Requests
  BY <1>1 DEF Requests
<1>3. QED
  BY <1>2, AsksOK, Unwritten DEF PostPublish, Answered, Inv
\* Nor does asking for a map,
LEMMA PostMappingJobStep ==
  ASSUME Inv, read' = Read', NEW o \in Orgs, NEW v \in DOMAIN db.versions, NEW r \in RoleKeys, PostMappingJob(o, v, r) PROVE Answered
<1>1. v \in Versions
  BY DEF Inv, VersionsOK
<1>2. [kind |-> "map", org |-> o, of |-> <<v, r>>] \in Requests
  BY <1>1 DEF Requests
<1>3. QED
  BY <1>2, AsksOK, Unwritten DEF PostMappingJob, Answered, Inv
\* nor asking for a demo,
LEMMA BeginDemoStep ==
  ASSUME Inv, read' = Read', NEW o \in Orgs, NEW p \in DOMAIN db.products, NEW w \in WorkerIds, BeginDemo(o, p, w) PROVE Answered
<1> DEFINE v == db.products[p].active
<1>1. v \in Versions
  BY DEF BeginDemo, Inv, ProductsOK, ProductOK, VersionsOK
<1>2. [kind |-> "demo", org |-> o, of |-> v, by |-> w] \in Requests
  BY <1>1 DEF Requests
<1>3. QED
  BY <1>2, AsksOK, Unwritten DEF BeginDemo, Answered, Inv
\* nor giving a request up,
LEMMA AbandonStep == ASSUME Inv, read' = Read', NEW f, Abandon(f) PROVE Answered
BY DoneOK, Unwritten DEF Abandon, Answered, Inv
\* nor the death of a worker.
LEMMA CrashStep == ASSUME Inv, read' = Read', NEW w \in WorkerIds, WorkerDies(w) PROVE Answered
<1>1. WorkOK'
  BY DEF WorkerDies, WorkOK, Row, Inv
<1>2. QED
  BY <1>1, Unwritten DEF WorkerDies, Answered

-----------------------------------------------------------------------------
(* What is learned, and access. *)

\* What is learned is one call of appendTraining.
LEMMA Learns ==
  ASSUME Inv, read' = Read', WorkOK', UNCHANGED kept, NEW o \in Orgs, NEW e \in Events, NEW p \in Products, NEW j \in JobIds \cup {Null},
         NEW journey \in JourneyRefs \cup {<<>>}, Stores("training", e, [org |-> o, product |-> p, job |-> j, journey |-> journey])
  PROVE  Answered
<1> DEFINE row == [org |-> o, product |-> p, job |-> j, journey |-> journey]
           rows == Put(db.training, e, row)
<1>1. Inv' /\ read' = [read EXCEPT !.training = Over(rows, kept.training)]
  BY OnlyTraining DEF Stores
<1>2. P!AppendTraining(o, e, p, j, journey)
  BY <1>1, Reads, StoredRow DEF P!AppendTraining, ViewedTraining
<1>3. QED
  BY <1>1, <1>2, ByAppendTraining DEF Answered
\* Noting a review is such a call: the journey it decided on is there.
LEMMA NoteReviewStep ==
  ASSUME Inv, read' = Read', NEW f \in work.requests, NEW e \in Drawn(Events, "training"), NoteReview(f, e) PROVE Answered
<1>1. f \in Requests /\ f.org \in Orgs /\ f.of \in JourneyRefs
  BY RequestKinds DEF Inv, WorkOK, NoteReview
<1>2. [kind |-> "rework", org |-> f.org, of |-> f.of] \in Requests
  BY <1>1 DEF Requests
<1>3. WorkOK'
  BY <1>2 DEF NoteReview, WorkOK, Row, Inv
<1>4. f.of[1] \in DOMAIN db.versions
  BY DEF NoteReview, Inv, JourneysOK, JourneyOK, Id
<1>5. db.versions[f.of[1]].product \in Products
  BY <1>4 DEF Inv, VersionsOK, VersionOK, ProductsOK
<1>6. Stores("training", e, [org |-> f.org, product |-> db.versions[f.of[1]].product, job |-> Null, journey |-> f.of]) /\ UNCHANGED kept
  BY DEF NoteReview
<1>7. e \in Events
  BY DrawnFresh
<1>8. QED
  BY <1>1, <1>3, <1>5, <1>6, <1>7, Learns
\* So is noting what was done to a job,
LEMMA NoteControlStep ==
  ASSUME Inv, read' = Read', NEW f \in work.requests, NEW e \in Drawn(Events, "training"), NoteControl(f, e) PROVE Answered
<1>1. f \in Requests /\ f.org \in Orgs /\ f.of \in JobIds
  BY RequestKinds DEF Inv, WorkOK, NoteControl
<1>3. WorkOK'
  BY DoneOK DEF NoteControl, Inv
<1>5. db.jobs[f.of].product \in Products
  BY DEF NoteControl, Inv, JobsOK, JobOK
<1>6. QED
  BY <1>1, <1>3, <1>5, DrawnFresh, Learns DEF NoteControl
\* and a mapper's report, whoever holds the lease.
LEMMA ReportsStep ==
  ASSUME Inv, read' = Read', NEW w \in WorkerIds, NEW e \in Drawn(Events, "training"), Reports(w, e) PROVE Answered
<1> DEFINE j == work.serving[w]
<1>1. j \in JobIds /\ db.jobs[j].org \in Orgs /\ db.jobs[j].product \in Products
  BY DEF Reports, Inv, JobsOK, JobOK
<1>3. WorkOK'
  BY SameWork DEF Reports, Inv
<1>6. QED
  BY <1>1, <1>3, DrawnFresh, Learns DEF Reports
\* A credential is saved as the store in memory saves it.
LEMMA PostCredentialStep ==
  ASSUME Inv, read' = Read', NEW o \in Orgs, NEW c \in Drawn(Credentials, "credentials"), PostCredential(o, c) PROVE Answered
<1>1. Inv' /\ read' = [read EXCEPT !.credentials = Put(db.credentials, c, o)]
  BY CalledOK, OnlyCredentials DEF PostCredential, Stores, Inv
<1>2. P!SaveCredentialRef(o, c)
  BY <1>1, Reads, SamePut DEF P!SaveCredentialRef, P!Saves
<1>3. QED
  BY <1>1, <1>2, DrawnFresh, BySaveCredentialRef DEF Answered
\* Feedback of a session there is.
LEMMA SaveSignalStep ==
  ASSUME Inv, read' = Read', NEW f \in work.requests, NEW x \in Drawn(SignalIds, "feedback"), SaveSignal(f, x) PROVE Answered
<1> DEFINE p == db.sessions[f.of].product
           row == [org |-> f.org, product |-> p, session |-> f.of]
<1>1. f.org \in Orgs /\ f.of \in Sessions /\ p \in Products
  BY RequestKinds DEF Inv, WorkOK, SaveSignal, SessionsOK, SessionOK
<1>2. Inv' /\ read' = [read EXCEPT !.feedback = Put(db.feedback, x, row)]
  BY DoneOK, OnlyFeedback DEF SaveSignal, Stores, Inv
<1>3. P!SaveFeedback(f.org, x, p, f.of)
  BY <1>2, Reads, SamePut DEF P!SaveFeedback, P!Saves
<1>4. QED
  BY <1>1, <1>2, <1>3, DrawnFresh, BySaveFeedback DEF Answered
\* A grant is given as the store in memory gives it.
LEMMA PostGrantStep ==
  ASSUME Inv, read' = Read', NEW o \in Orgs, NEW g \in Drawn(Grants, "grants"), NEW p \in DOMAIN db.products, NEW k \in RoleKeys, PostGrant(o, g, p, k)
  PROVE  Answered
<1> DEFINE row == [org |-> o, product |-> p, role |-> k, revoked |-> FALSE]
           rows == Put(db.grants, g, row)
<1>1. db'.grants = rows
  BY OneTable DEF PostGrant, Stores, Inv, Tables
<1>2. GrantsOK'
  <2>1. g \in Grants
    BY DrawnFresh
  <2>2. DOMAIN rows = DOMAIN db.grants \cup {g} /\ rows[g] = row /\ \A x \in DOMAIN rows \ {g} : rows[x] = db.grants[x]
    BY DEF Put
  <2>3. Row(row, {"org", "product", "role", "revoked"})
    BY DEF Row
  <2>4. QED
    BY <1>1, <2>1, <2>2, <2>3 DEF GrantsOK, Inv
<1>3. Inv' /\ read' = [read EXCEPT !.grants = Over(rows, kept.grants)]
  BY <1>2, CalledOK, OnlyGrants DEF PostGrant, Stores, Inv
<1>4. P!SaveEmbedGrant(o, g, p, k)
  BY <1>3, Reads, StoredRow DEF P!SaveEmbedGrant, ViewedGrants
<1>5. p \in Products
  BY DEF Inv, ProductsOK
<1>6. QED
  BY <1>3, <1>4, <1>5, DrawnFresh, BySaveEmbedGrant DEF Answered
\* A grant is revoked where it is, and never one that is kept.
LEMMA DeleteGrantStep ==
  ASSUME Inv, read' = Read', NEW o \in Orgs, NEW g \in DOMAIN db.grants, DeleteGrant(o, g) PROVE Answered
<1> DEFINE row == [db.grants[g] EXCEPT !.revoked = TRUE]
           rows == Put(db.grants, g, row)
<1>1. db'.grants = rows
  BY OneTable DEF DeleteGrant, Stores, Inv, Tables
<1>2. GrantsOK'
  <2>1. g \in DOMAIN db.grants /\ Row(db.grants[g], {"org", "product", "role", "revoked"})
    BY DEF DeleteGrant, Owned, Inv, GrantsOK
  <2>2. DOMAIN rows = DOMAIN db.grants /\ rows[g] = row /\ \A x \in DOMAIN rows \ {g} : rows[x] = db.grants[x]
    BY <2>1 DEF Put
  <2>3. Row(row, {"org", "product", "role", "revoked"})
    BY <2>1 DEF Row
  <2>4. QED
    BY <1>1, <2>1, <2>2, <2>3 DEF GrantsOK, Inv
<1>3. Inv' /\ read' = [read EXCEPT !.grants = Over(rows, kept.grants)]
  BY <1>2, CalledOK, OnlyGrants DEF DeleteGrant, Stores, Inv
<1>4. g \in DOMAIN read.grants /\ read.grants[g] = db.grants[g] /\ db.grants[g].org = o
  BY Reads DEF ViewedGrants, Over, DeleteGrant, Owned
<1>5. P!RevokeEmbedGrant(o, g)
  BY <1>3, <1>4, Reads, StoredRow DEF P!RevokeEmbedGrant, ViewedGrants, P!Mine
<1>6. g \in Grants
  BY DEF Inv, GrantsOK
<1>7. QED
  BY <1>3, <1>5, <1>6, ByRevokeEmbedGrant DEF Answered

-----------------------------------------------------------------------------
(* Demos. *)

SessionFields == {"org", "product", "version", "status", "worker", "live"}
\* Storing a session leaves sessions well formed.
LEMMA SessionStored ==
  ASSUME SessionsOK, NEW s, NEW row, Row(row, SessionFields), row.org \in Orgs, row.product \in Products,
         db'.sessions = Put(db.sessions, s, row)
  PROVE  SessionsOK'
<1> DEFINE rows == Put(db.sessions, s, row)
<1>1. rows[s] = row /\ DOMAIN rows = DOMAIN db.sessions \cup {s} /\ \A x \in DOMAIN rows \ {s} : rows[x] = db.sessions[x]
  BY DEF Put
<1>2. rows = [x \in DOMAIN rows |-> rows[x]]
  BY DEF Put
<1>3. QED
  BY <1>1, <1>2 DEF SessionsOK, SessionOK, SessionFields
\* A demo starts under an id of its own, on a version there is.
LEMMA StartDemoStep ==
  ASSUME Inv, read' = Read', NEW f \in work.requests, NEW s \in Drawn(Sessions, "sessions"), StartDemo(f, s) PROVE Answered
<1> DEFINE v == f.of
           p == db.versions[v].product
           row == [org |-> f.org, product |-> p, version |-> v, status |-> "active", worker |-> f.by, live |-> TRUE]
<1>1. f.org \in Orgs /\ v \in Versions /\ f.by \in WorkerIds
  BY RequestKinds DEF Inv, WorkOK, StartDemo
<1>2. p \in Products
  BY DEF StartDemo, Inv, VersionsOK, VersionOK, ProductsOK
<1>3. WorkOK'
  BY DEF StartDemo, WorkOK, Row, Inv
<1>4. db'.sessions = Put(db.sessions, s, row)
  BY OneTable DEF StartDemo, Stores, Inv, Tables
<1>5. SessionsOK'
  BY <1>1, <1>2, <1>4, SessionStored DEF Row, SessionFields, Inv
<1>6. Inv' /\ read' = [read EXCEPT !.sessions = Put(db.sessions, s, row)]
  BY <1>3, <1>5, OnlySessions DEF StartDemo, Stores
<1>7. P!CreateSession(f.org, s, p, v, f.by)
  BY <1>6, DrawnFresh, Reads, SamePut DEF P!CreateSession, P!Saves
<1>8. QED
  BY <1>1, <1>2, <1>6, <1>7, DrawnFresh, ByCreateSession DEF Answered

\* Updating a session is a call, or nothing where the row is gone.
LEMMA Updates ==
  ASSUME Inv, read' = Read', WorkOK', UNCHANGED kept, NEW s \in Sessions, NEW w \in WorkerIds, NEW status \in {"active", "ended"}, NEW live \in BOOLEAN,
         Saves("sessions", Updated(s, w, status, live))
  PROVE  Answered
<1>0. db'.sessions = Updated(s, w, status, live)
  BY OneTable DEF Inv, Tables
<1>1. CASE s \in DOMAIN db.sessions
  <2> DEFINE was == db.sessions[s]
             row == [was EXCEPT !.status = status, !.worker = w, !.live = live]
  <2>1. Row(was, SessionFields) /\ was.org \in Orgs /\ was.product \in Products
    BY <1>1 DEF Inv, SessionsOK, SessionOK, SessionFields
  <2>2. Row(row, SessionFields) /\ row.org = was.org /\ row.product = was.product
    BY <2>1 DEF Row, SessionFields
  <2>3. Updated(s, w, status, live) = Put(db.sessions, s, row)
    BY <1>1 DEF Updated
  <2>4. SessionsOK'
    BY <1>0, <2>1, <2>2, <2>3, SessionStored DEF Inv
  <2>5. Inv' /\ read' = [read EXCEPT !.sessions = Put(db.sessions, s, row)]
    BY <2>3, <2>4, OnlySessions
  <2>6. P!UpdateSession(was.org, s, w, status, live)
    BY <1>1, <2>5, Reads, SamePut DEF P!UpdateSession, P!Saves, P!Mine
  <2>7. QED
    BY <2>1, <2>5, <2>6, ByUpdateSession DEF Answered
<1>2. CASE s \notin DOMAIN db.sessions
  <2>1. Updated(s, w, status, live) = db.sessions
    BY <1>2 DEF Updated
  <2>2. SessionsOK'
    BY <1>0, <2>1, KeepSessions DEF Inv
  <2>3. Inv' /\ read' = [read EXCEPT !.sessions = db.sessions]
    BY <2>1, <2>2, OnlySessions
  <2>4. read' = read
    BY <2>3, ReadParts DEF Inv
  <2>5. QED
    BY <2>3, <2>4 DEF Answered
<1>3. QED
  BY <1>1, <1>2
\* A host's checkpoint is such an update,
LEMMA CheckpointDemoStep ==
  ASSUME Inv, read' = Read', NEW w \in WorkerIds, NEW s \in Sessions, CheckpointDemo(w, s) PROVE Answered
BY SameWork, Updates DEF CheckpointDemo, Inv
\* so is its end of the demo, with its own copy of the lease,
LEMMA EndDemoStep ==
  ASSUME Inv, read' = Read', NEW w \in WorkerIds, NEW s \in Sessions, EndDemo(w, s) PROVE Answered
<1> DEFINE f == [kind |-> "signal", org |-> db.sessions[s].org, of |-> s]
<1>1. s \in DOMAIN db.sessions => f \in Requests
  BY DEF Inv, SessionsOK, SessionOK, Requests
<1>2. WorkOK'
  BY <1>1 DEF EndDemo, WorkOK, Row, Inv
<1>3. PICK live \in BOOLEAN : Saves("sessions", Updated(s, w, "ended", live))
  BY DEF EndDemo
<1>4. QED
  BY <1>2, <1>3, Updates DEF EndDemo
\* and taking a demo over.
LEMMA RecoverDemoStep ==
  ASSUME Inv, read' = Read', NEW w \in WorkerIds, NEW s \in Sessions, RecoverDemo(w, s) PROVE Answered
<1>1. WorkOK'
  BY DEF RecoverDemo, WorkOK, Row, Inv
<1>2. QED
  BY <1>1, Updates DEF RecoverDemo

-----------------------------------------------------------------------------
(* Jobs and their leases. *)

JobFields == {"org", "product", "version", "role", "status", "owner", "live"}
JobRowOK(x) ==
  /\ Row(x, JobFields)
  /\ x.org \in Orgs /\ x.product \in Products /\ x.version \in Versions /\ x.role \in RoleKeys
  /\ x.owner \in WorkerIds \cup {Null} /\ x.live \in BOOLEAN
  /\ x.owner # Null => x.status = "running"
  /\ x.live => x.owner # Null
JobSeen(x) == [org |-> x.org, product |-> x.product, version |-> x.version, role |-> x.role, status |-> x.status]
\* Both modules drop ids in the same way.
LEMMA SameDrop == \A f, K : P!Drop(f, K) = Drop(f, K)
BY DEF P!Drop, Drop, P!Restrict, Restrict
\* A job there is has a well-formed row.
LEMMA JobRows == ASSUME JobsOK, NEW j \in DOMAIN db.jobs PROVE j \in JobIds /\ JobRowOK(db.jobs[j])
BY DEF JobsOK, JobOK, JobRowOK, JobFields
\* What is seen of a job is its row without its lease.
LEMMA JobSeenIs == ASSUME NEW x, JobRowOK(x) PROVE Without(x, {"owner", "live"}) = JobSeen(x)
<1> DEFINE F == {"org", "product", "version", "role", "status"}
<1>1. x = [f \in JobFields |-> x[f]]
  BY DEF JobRowOK, Row
<1>2. DOMAIN x \ {"owner", "live"} = F
  BY <1>1 DEF JobFields
<1>3. Without(x, {"owner", "live"}) = [f \in F |-> x[f]]
  BY <1>2 DEF Without, Restrict
<1>4. QED
  BY <1>3 DEF JobSeen
\* What is read of a job and of its lease is what its row says.
LEMMA JobsSeen ==
  ASSUME Inv
  PROVE  /\ DOMAIN read.jobs = DOMAIN db.jobs
         /\ \A j \in DOMAIN db.jobs :
              /\ read.jobs[j] = JobSeen(db.jobs[j])
              /\ j \in DOMAIN read.leases <=> db.jobs[j].owner # Null
              /\ db.jobs[j].owner # Null => read.leases[j] = [owner |-> db.jobs[j].owner, live |-> db.jobs[j].live]
<1>1. read.jobs = ViewedJobs /\ read.leases = ViewedLeases
  BY Reads
<1>2. DOMAIN read.jobs = DOMAIN db.jobs
  BY <1>1 DEF ViewedJobs
<1>3. ASSUME NEW j \in DOMAIN db.jobs
      PROVE  /\ read.jobs[j] = JobSeen(db.jobs[j])
             /\ j \in DOMAIN read.leases <=> db.jobs[j].owner # Null
             /\ db.jobs[j].owner # Null => read.leases[j] = [owner |-> db.jobs[j].owner, live |-> db.jobs[j].live]
  <2>1. read.jobs[j] = JobSeen(db.jobs[j])
    BY <1>1, JobRows, JobSeenIs DEF ViewedJobs, Inv
  <2>2. j \notin DOMAIN kept.leases
    BY DEF Inv, KeptOK
  <2>3. QED
    BY <1>1, <2>1, <2>2 DEF ViewedLeases, Leases, Over
<1>4. QED
  BY <1>2, <1>3

\* So the store would decide on it as the database does.
LEMMA JobSeenNow ==
  ASSUME Inv, NEW j \in DOMAIN db.jobs
  PROVE  /\ j \in P!Mine(db.jobs[j].org, "jobs") /\ read.jobs[j].status = db.jobs[j].status
         /\ j \in DOMAIN read.leases <=> db.jobs[j].owner # Null
         /\ db.jobs[j].owner # Null => read.leases[j].owner = db.jobs[j].owner /\ read.leases[j].live = db.jobs[j].live
<1> DEFINE x == db.jobs[j]
<1>1. JobSeen(x).org = x.org /\ JobSeen(x).status = x.status
  BY DEF JobSeen
<1>2. j \in DOMAIN read.jobs /\ read.jobs[j] = JobSeen(x)
  BY JobsSeen
<1>3. j \in P!Mine(x.org, "jobs")
  BY <1>1, <1>2 DEF P!Mine
<1>4. read.jobs[j].status = x.status
  BY <1>1, <1>2
<1>5. /\ j \in DOMAIN read.leases <=> x.owner # Null
      /\ x.owner # Null => read.leases[j] = [owner |-> x.owner, live |-> x.live]
  BY JobsSeen
<1>6. QED
  BY <1>3, <1>4, <1>5

\* Storing a job changes what is read of that job, and its lease.
LEMMA JobStored ==
  ASSUME JobsOK, NEW j \in JobIds, NEW row, JobRowOK(row), db'.jobs = Put(db.jobs, j, row), kept' = kept, j \notin DOMAIN kept.leases
  PROVE  /\ JobsOK'
         /\ ViewedJobs' = Put(ViewedJobs, j, JobSeen(row))
         /\ row.owner # Null => ViewedLeases' = Put(ViewedLeases, j, [owner |-> row.owner, live |-> row.live])
         /\ row.owner = Null => ViewedLeases' = Drop(ViewedLeases, {j})
<1> DEFINE rows == Put(db.jobs, j, row)
<1>1. rows[j] = row /\ DOMAIN rows = DOMAIN db.jobs \cup {j} /\ \A x \in DOMAIN rows \ {j} : rows[x] = db.jobs[x]
  BY DEF Put
<1>2. JobsOK'
  BY <1>1 DEF JobsOK, JobOK, JobRowOK, JobFields
<1>3. ViewedJobs' = Put(ViewedJobs, j, JobSeen(row))
  <2>1. Without(row, {"owner", "live"}) = JobSeen(row)
    BY JobSeenIs
  <2>2. ViewedJobs' = [x \in DOMAIN rows |-> Without(rows[x], {"owner", "live"})]
    BY DEF ViewedJobs
  <2>3. QED
    BY <1>1, <2>1, <2>2 DEF ViewedJobs, Put
<1> DEFINE leased == {x \in DOMAIN rows : rows[x].owner # Null}
           after == [x \in leased |-> [owner |-> rows[x].owner, live |-> rows[x].live]]
<1>4. Leases' = after
  BY DEF Leases
<1>5. ViewedLeases' = Over(after, kept.leases)
  BY <1>4 DEF ViewedLeases
<1>6. ASSUME row.owner # Null PROVE ViewedLeases' = Put(ViewedLeases, j, [owner |-> row.owner, live |-> row.live])
  <2>1. after = Put(Leases, j, [owner |-> row.owner, live |-> row.live])
    BY <1>1, <1>6 DEF Leases, Put
  <2>2. QED
    BY <1>5, <2>1, PutOver DEF ViewedLeases
<1>7. ASSUME row.owner = Null PROVE ViewedLeases' = Drop(ViewedLeases, {j})
  <2>1. after = Drop(Leases, {j})
    BY <1>1, <1>7 DEF Leases, Drop, Restrict
  <2>2. Over(Drop(Leases, {j}), kept.leases) = Drop(Over(Leases, kept.leases), {j})
    BY DEF Over, Drop, Restrict
  <2>3. QED
    BY <1>5, <2>1, <2>2 DEF ViewedLeases
<1>8. QED
  BY <1>2, <1>3, <1>6, <1>7

\* A job's status and owner are saved together.
LEMMA JobSets ==
  ASSUME Inv, read' = Read', WorkOK', UNCHANGED kept, NEW j \in DOMAIN db.jobs, NEW status, NEW owner \in WorkerIds \cup {Null},
         owner # Null => status = "running", Saves("jobs", JobSet(j, status, owner))
  PROVE  /\ Inv'
         /\ owner # Null => read' = [read EXCEPT !.jobs[j].status = status, !.leases = P!Put(@, j, [owner |-> owner, live |-> TRUE])]
         /\ owner = Null => read' = [read EXCEPT !.jobs[j].status = status, !.leases = P!Drop(@, {j})]
<1> DEFINE was == db.jobs[j]
           row == [was EXCEPT !.status = status, !.owner = owner, !.live = owner # Null]
<1>1. j \in JobIds /\ JobRowOK(was)
  BY JobRows DEF Inv
<1>2. JobRowOK(row) /\ row.owner = owner /\ row.live = (owner # Null) /\ JobSeen(row) = [JobSeen(was) EXCEPT !.status = status]
  <2>1. was = [f \in JobFields |-> was[f]]
    BY <1>1 DEF JobRowOK, Row
  <2>2. row = [f \in JobFields |-> row[f]] /\ row.owner = owner /\ row.live = (owner # Null) /\ row.status = status
        /\ row.org = was.org /\ row.product = was.product /\ row.version = was.version /\ row.role = was.role
    BY <2>1 DEF JobFields
  <2>3. JobRowOK(row)
    BY <1>1, <2>2 DEF JobRowOK, Row
  <2>4. JobSeen(row) = [JobSeen(was) EXCEPT !.status = status]
    BY <2>2 DEF JobSeen
  <2>5. QED
    BY <2>2, <2>3, <2>4
<1>3. db'.jobs = Put(db.jobs, j, row)
  BY OneTable DEF Inv, Tables, JobSet
<1>4. j \notin DOMAIN kept.leases
  BY DEF Inv, KeptOK
<1>5. DOMAIN db'.jobs = DOMAIN db.jobs
  BY <1>3 DEF Put
<1>6. JobsOK' /\ ViewedJobs' = Put(ViewedJobs, j, JobSeen(row))
      /\ (owner # Null => ViewedLeases' = Put(ViewedLeases, j, [owner |-> owner, live |-> TRUE]))
      /\ (owner = Null => ViewedLeases' = Drop(ViewedLeases, {j}))
  <2>1. owner # Null => row.live = TRUE
    BY <1>2
  <2> HIDE DEF row
  <2>2. JobsOK
    BY DEF Inv
  <2>3. /\ JobsOK'
        /\ ViewedJobs' = Put(ViewedJobs, j, JobSeen(row))
        /\ row.owner # Null => ViewedLeases' = Put(ViewedLeases, j, [owner |-> row.owner, live |-> row.live])
        /\ row.owner = Null => ViewedLeases' = Drop(ViewedLeases, {j})
    BY <1>1, <1>2, <1>3, <1>4, <2>2, JobStored
  <2>4. QED
    BY <1>2, <2>1, <2>3
<1>7. ArtifactsOK' /\ KeptOK'
  <2>1. db'.artifacts = db.artifacts
    BY OneTable DEF Inv, Tables
  <2>2. QED
    BY <1>5, <2>1, KeepArtifacts, KeepKept DEF Inv
<1>8. Inv' /\ read' = [read EXCEPT !.jobs = ViewedJobs', !.leases = ViewedLeases']
  BY <1>6, <1>7, OnlyJobs
<1>9. read.jobs[j] = JobSeen(was) /\ j \in DOMAIN read.jobs /\ read.jobs = ViewedJobs /\ read.leases = ViewedLeases
  BY JobsSeen, Reads
<1>10. ViewedJobs' = [read.jobs EXCEPT ![j].status = status]
  <2>1. ViewedJobs' = [read.jobs EXCEPT ![j] = JobSeen(row)]
    BY <1>6, <1>9 DEF Put, ViewedJobs
  <2>2. QED
    BY <1>2, <1>9, <2>1
<1>11. QED
  BY <1>6, <1>8, <1>9, <1>10, SamePut, SameDrop

\* A claim: of a queued job, of its own, or of one without a live lease.
LEMMA ClaimStep ==
  ASSUME Inv, read' = Read', Sensible, NEW w \in WorkerIds, NEW j \in DOMAIN db.jobs, ClaimRow(w, j) PROVE Answered
<1> DEFINE o == db.jobs[j].org
<1>1. j \in JobIds /\ JobRowOK(db.jobs[j]) /\ w # Null
  BY JobRows DEF Inv, Sensible
<1>2. WorkOK'
  BY <1>1, ServesOK DEF ClaimRow, Inv
<1>3. Inv' /\ read' = [read EXCEPT !.jobs[j].status = "running", !.leases = P!Put(@, j, [owner |-> w, live |-> TRUE])]
  BY <1>1, <1>2, JobSets DEF ClaimRow
<1>4. j \in P!Mine(o, "jobs")
  BY JobSeenNow
<1>5. \/ read.jobs[j].status = "queued"
      \/ read.jobs[j].status = "running" /\ (j \in DOMAIN read.leases => read.leases[j].owner = w \/ ~read.leases[j].live)
  BY <1>1, JobSeenNow DEF ClaimRow, JobRowOK
<1>6. P!ClaimJob(o, j, w)
  BY <1>3, <1>4, <1>5 DEF P!ClaimJob
<1>7. QED
  BY <1>1, <1>3, <1>6, ByClaimJob DEF Answered, JobRowOK

\* A checkpoint of the worker that holds the lease.
LEMMA Checkpoints ==
  ASSUME Inv, read' = Read', Sensible, WorkOK', UNCHANGED kept, NEW w \in WorkerIds, Holds(w),
         NEW status \in {"queued", "running", "completed", "failed"},
         Saves("jobs", JobSet(work.serving[w], status, IF status = "running" THEN w ELSE Null))
  PROVE  Answered
<1> DEFINE j == work.serving[w]
           o == db.jobs[j].org
           owner == IF status = "running" THEN w ELSE Null
<1>1. j \in DOMAIN db.jobs /\ j \in JobIds /\ JobRowOK(db.jobs[j]) /\ w # Null /\ db.jobs[j].owner = w
  BY JobRows DEF Inv, Sensible, Holds
<1>2. owner \in WorkerIds \cup {Null} /\ (owner # Null => status = "running") /\ (owner # Null <=> status = "running")
  BY <1>1
<1>3. /\ Inv'
      /\ owner # Null => read' = [read EXCEPT !.jobs[j].status = status, !.leases = P!Put(@, j, [owner |-> owner, live |-> TRUE])]
      /\ owner = Null => read' = [read EXCEPT !.jobs[j].status = status, !.leases = P!Drop(@, {j})]
  BY <1>1, <1>2, JobSets
<1>4. j \in P!Mine(o, "jobs") /\ j \in DOMAIN read.leases /\ read.leases[j].owner = w
  BY <1>1, JobSeenNow
<1>5. P!Checkpoint(o, j, w, status)
  BY <1>2, <1>3, <1>4 DEF P!Checkpoint
<1>6. QED
  BY <1>1, <1>3, <1>5, ByCheckpoint DEF Answered, JobRowOK
\* Between stages a worker saves its job, or leaves it unseen.
LEMMA ProgressStep ==
  ASSUME Inv, read' = Read', Sensible, NEW w \in WorkerIds, Progress(w) PROVE Answered
<1>1. CASE Holds(w) /\ Saves("jobs", JobSet(work.serving[w], "running", w)) /\ UNCHANGED work
  BY <1>1, SameWork, Checkpoints DEF Progress, Inv
<1>2. CASE Serves(w, Null) /\ UNCHANGED db
  BY <1>2, ServesOK, Unwritten DEF Progress, Inv, Answered
<1>3. QED
  BY <1>1, <1>2 DEF Progress
\* A worker that holds the lease ends its job.
LEMMA StopsStep ==
  ASSUME Inv, read' = Read', Sensible, NEW w \in WorkerIds, NEW outcomes \in SUBSET {"queued", "completed", "failed"}, Stops(w, outcomes) PROVE Answered
<1>1. PICK status \in outcomes : Saves("jobs", JobSet(work.serving[w], status, Null))
  BY DEF Stops
<1>2. status \in {"queued", "completed", "failed"} /\ (IF status = "running" THEN w ELSE Null) = Null
  OBVIOUS
<1>3. QED
  BY <1>1, <1>2, ServesOK, Checkpoints DEF Stops, Inv
\* People pause, resume and cancel a job, and its lease goes.
LEMMA PostControlStep ==
  ASSUME Inv, read' = Read', NEW o \in Orgs, NEW j \in DOMAIN db.jobs, NEW action \in DOMAIN ToStatus, PostControl(o, j, action) PROVE Answered
<1>1. j \in JobIds /\ JobRowOK(db.jobs[j]) /\ db.jobs[j].org = o
  BY JobRows DEF Inv, PostControl, Owned
<1>2. WorkOK'
  <2>1. [kind |-> "control", org |-> o, of |-> j] \in Requests
    BY <1>1 DEF Requests
  <2>2. QED
    BY <2>1, AsksOK DEF PostControl, Inv
<1>3. Inv' /\ read' = [read EXCEPT !.jobs[j].status = ToStatus[action], !.leases = P!Drop(@, {j})]
  BY <1>2, JobSets DEF PostControl
<1>4. j \in P!Mine(o, "jobs") /\ read.jobs[j].status = db.jobs[j].status
  BY <1>1, JobSeenNow
<1>5. P!ControlJob(o, j, action)
  BY <1>3, <1>4 DEF P!ControlJob, PostControl, P!From, From, P!To, ToStatus
<1>6. QED
  BY <1>1, <1>3, <1>5, ByControlJob DEF Answered

\* A job is queued for a version there is.
LEMMA QueuesStep ==
  ASSUME Inv, read' = Read', Sensible, WorkOK', UNCHANGED kept, NEW o \in Orgs, NEW j \in Drawn(JobIds, "jobs"), NEW v \in Versions, NEW r \in RoleKeys,
         Queues(o, j, v, r)
  PROVE  Answered
<1> DEFINE p == db.versions[v].product
           row == [org |-> o, product |-> p, version |-> v, role |-> r, status |-> "queued", owner |-> Null, live |-> FALSE]
<1>1. j \in JobIds /\ j \notin DOMAIN db.jobs /\ j \notin kept.ids
  BY DrawnFresh
<1>2. p \in Products
  BY DEF Queues, Inv, VersionsOK, VersionOK, ProductsOK
<1>3. JobRowOK(row) /\ row.owner = Null
  BY <1>2 DEF JobRowOK, JobFields, Row
<1>4. j \notin DOMAIN kept.leases /\ j \notin DOMAIN kept.artifacts
  BY <1>1 DEF Inv, KeptOK
<1>5. db'.jobs = Put(db.jobs, j, row) /\ db'.artifacts = db.artifacts
  BY OneTable DEF Inv, Tables, Queues, Stores
<1>6. JobsOK' /\ ViewedJobs' = Put(ViewedJobs, j, JobSeen(row)) /\ ViewedLeases' = Drop(ViewedLeases, {j})
  BY <1>1, <1>3, <1>4, <1>5, JobStored DEF Inv
<1>7. DOMAIN db'.jobs = DOMAIN db.jobs \cup {j}
  BY <1>5 DEF Put
<1>8. ArtifactsOK' /\ KeptOK'
  BY <1>4, <1>5, <1>7, KeepArtifacts DEF Inv, KeptOK
<1>9. Inv' /\ read' = [read EXCEPT !.jobs = ViewedJobs', !.leases = ViewedLeases']
  BY <1>5, <1>6, <1>8, OnlyJobs DEF Queues, Stores
<1>10. j \notin DOMAIN read.jobs /\ read.jobs = ViewedJobs /\ read.leases = ViewedLeases
  BY <1>1, JobsSeen, Reads
<1>11. ViewedLeases' = ViewedLeases
  <2>1. j \notin DOMAIN ViewedLeases
    BY <1>1, <1>4 DEF ViewedLeases, Leases, Over
  <2>2. ViewedLeases = [x \in DOMAIN ViewedLeases |-> ViewedLeases[x]]
    BY DEF ViewedLeases, Over
  <2>3. DOMAIN ViewedLeases \ {j} = DOMAIN ViewedLeases
    BY <2>1
  <2>4. QED
    BY <1>6, <2>2, <2>3 DEF Drop, Restrict
<1>12. read' = [read EXCEPT !.jobs = ViewedJobs']
  <2>1. read' = [read EXCEPT !.jobs = ViewedJobs', !.leases = read.leases]
    BY <1>9, <1>10, <1>11
  <2>2. Row(read, {"products", "catalogs", "jobs", "leases", "artifacts", "sessions", "credentials", "grants", "feedback", "training"})
    BY ReadParts DEF Inv, Row
  <2>3. QED
    BY <2>1, <2>2 DEF Row
<1>13. P!Enqueue(o, j, p, v, r)
  BY <1>6, <1>10, <1>12, SamePut DEF P!Enqueue, P!Saves, JobSeen
<1>14. QED
  BY <1>1, <1>2, <1>9, <1>13, ByEnqueue DEF Answered
\* A rework queues a job for the journey's role.
LEMMA QueueReworkStep ==
  ASSUME Inv, read' = Read', Sensible, NEW f \in work.requests, NEW j \in Drawn(JobIds, "jobs"), QueueRework(f, j) PROVE Answered
<1>1. f \in Requests /\ f.org \in Orgs /\ f.of \in JourneyRefs
  BY RequestKinds DEF Inv, WorkOK, QueueRework
<1>2. f.of[1] \in Versions /\ f.of[3] \in RoleKeys
  BY <1>1 DEF JourneyRefs
<1>3. QED
  BY <1>1, <1>2, DoneOK, QueuesStep DEF QueueRework, Inv
\* A request for a map queues a job for the role asked for.
LEMMA QueueMappingStep ==
  ASSUME Inv, read' = Read', Sensible, NEW f \in work.requests, NEW j \in Drawn(JobIds, "jobs"), QueueMapping(f, j) PROVE Answered
<1>1. f \in Requests /\ f.org \in Orgs /\ f.of \in Versions \X RoleKeys
  BY RequestKinds DEF Inv, WorkOK, QueueMapping
<1>3. QED
  BY <1>1, DoneOK, QueuesStep DEF QueueMapping, Inv

\* A map is delivered under its job's id, whoever holds the lease.
LEMMA DeliversStep ==
  ASSUME Inv, read' = Read', NEW w \in WorkerIds, NEW m \in Maps, Delivers(w, m) PROVE Answered
<1> DEFINE j == m.job
           km == Keyed(m, db.jobs[j].role)
           rows == Put(db.artifacts, j, km)
<1>1. j \in DOMAIN db.jobs /\ j \in JobIds /\ JobRowOK(db.jobs[j])
  BY JobRows DEF Inv, Delivers
<1>2. km \in Delivered
  BY <1>1 DEF JobRowOK, Delivered
<1> HIDE DEF km
<1>3. Saves("artifacts", rows)
  BY DEF Delivers, Stores, km
<1>4. db'.artifacts = rows /\ db'.jobs = db.jobs
  BY <1>3, OneTable DEF Inv, Tables
<1>5. ArtifactsOK'
  <2>1. DOMAIN rows = DOMAIN db.artifacts \cup {j} /\ rows[j] = km /\ \A x \in DOMAIN rows \ {j} : rows[x] = db.artifacts[x]
    BY DEF Put
  <2>2. QED
    BY <1>1, <1>2, <1>4, <2>1 DEF Inv, ArtifactsOK
<1>6. Inv' /\ read' = [read EXCEPT !.artifacts = Over(rows, kept.artifacts)]
  <2>1. WorkOK' /\ UNCHANGED kept
    BY SameWork DEF Delivers, Inv
  <2>2. QED
    BY <1>3, <1>5, <2>1, OnlyArtifacts
<1>7. P!Saves("artifacts", j, km)
  BY <1>6, Reads, StoredRow DEF ViewedArtifacts
<1>8. P!SaveArtifact(db.jobs[j].org, j, km)
  BY <1>1, <1>7, JobSeenNow DEF P!SaveArtifact
<1>9. QED
  BY <1>1, <1>2, <1>6, <1>8, BySaveArtifact DEF Answered, JobRowOK

-----------------------------------------------------------------------------
(* Leases lapse. *)

\* A lease that lapses keeps its owner.
LEMMA LeaseLost == ASSUME NEW a, NEW b, NEW c PROVE [[owner |-> a, live |-> b] EXCEPT !.live = c] = [owner |-> a, live |-> c]
<1> DEFINE y == [[owner |-> a, live |-> b] EXCEPT !.live = c]
           z == [owner |-> a, live |-> c]
<1>1. DOMAIN y = DOMAIN z
  OBVIOUS
<1>2. \A f \in DOMAIN y : y[f] = z[f]
  OBVIOUS
<1>3. y = [f \in DOMAIN y |-> y[f]] /\ z = [f \in DOMAIN z |-> z[f]]
  OBVIOUS
<1>4. QED
  BY <1>1, <1>2, <1>3
\* A job's lease lapses for both.
LEMMA JobLapses ==
  ASSUME Inv, read' = Read', Sensible, UNCHANGED <<work, kept>>, NEW j \in DOMAIN db.jobs, db.jobs[j].live,
         Stores("jobs", j, [db.jobs[j] EXCEPT !.live = FALSE])
  PROVE  Answered
<1> DEFINE was == db.jobs[j]
           row == [was EXCEPT !.live = FALSE]
<1>1. j \in JobIds /\ JobRowOK(was) /\ was.owner # Null
  BY JobRows DEF Inv, JobRowOK
<1>2. JobRowOK(row) /\ row.owner = was.owner /\ row.live = FALSE /\ JobSeen(row) = JobSeen(was)
  <2>1. was = [f \in JobFields |-> was[f]]
    BY <1>1 DEF JobRowOK, Row
  <2>2. row = [f \in JobFields |-> row[f]] /\ row.owner = was.owner /\ row.live = FALSE /\ row.status = was.status
        /\ row.org = was.org /\ row.product = was.product /\ row.version = was.version /\ row.role = was.role
    BY <2>1 DEF JobFields
  <2>3. QED
    BY <1>1, <2>2 DEF JobRowOK, Row, JobSeen
<1> HIDE DEF row
<1>3. db'.jobs = Put(db.jobs, j, row) /\ db'.artifacts = db.artifacts
  BY OneTable DEF Inv, Tables, Stores, row
<1>4. j \notin DOMAIN kept.leases
  BY DEF Inv, KeptOK
<1>5. JobsOK' /\ ViewedJobs' = Put(ViewedJobs, j, JobSeen(row)) /\ ViewedLeases' = Put(ViewedLeases, j, [owner |-> row.owner, live |-> row.live])
  BY <1>1, <1>2, <1>3, <1>4, JobStored DEF Inv
<1>6. DOMAIN db'.jobs = DOMAIN db.jobs
  BY <1>3 DEF Put
<1>7. Inv' /\ read' = [read EXCEPT !.jobs = ViewedJobs', !.leases = ViewedLeases']
  <2>1. WorkOK' /\ ArtifactsOK' /\ KeptOK'
    BY <1>3, <1>6, SameWork, KeepArtifacts, KeepKept DEF Inv
  <2>2. QED
    BY <1>5, <2>1, OnlyJobs DEF Stores, row
<1>8. j \in DOMAIN read.leases /\ read.leases[j] = [owner |-> was.owner, live |-> was.live] /\ read.jobs[j] = JobSeen(was) /\ j \in DOMAIN read.jobs
      /\ read.jobs = ViewedJobs /\ read.leases = ViewedLeases
  BY <1>1, JobsSeen, Reads
<1>9. ViewedJobs' = read.jobs
  BY <1>2, <1>5, <1>8 DEF Put, ViewedJobs
<1>10. ViewedLeases' = [read.leases EXCEPT ![j].live = FALSE]
  <2>1. [read.leases EXCEPT ![j].live = FALSE] = [read.leases EXCEPT ![j] = [owner |-> was.owner, live |-> FALSE]]
    <3>1. [read.leases[j] EXCEPT !.live = FALSE] = [owner |-> was.owner, live |-> FALSE]
      <4>1. [[owner |-> was.owner, live |-> was.live] EXCEPT !.live = FALSE] = [owner |-> was.owner, live |-> FALSE]
        BY LeaseLost
      <4>2. QED
        BY <1>8, <4>1
    <3>2. QED
      BY <3>1
  <2>2. ViewedLeases' = Put(ViewedLeases, j, [owner |-> was.owner, live |-> FALSE])
    BY <1>2, <1>5
  <2>3. QED
    <3>1. read.leases = [x \in DOMAIN read.leases |-> read.leases[x]]
      BY <1>8 DEF ViewedLeases, Over
    <3>2. Put(read.leases, j, [owner |-> was.owner, live |-> FALSE]) = [read.leases EXCEPT ![j] = [owner |-> was.owner, live |-> FALSE]]
      BY <1>8, <3>1 DEF Put
    <3>3. QED
      BY <1>8, <2>1, <2>2, <3>2
<1>11. read' = [read EXCEPT !.leases = [@ EXCEPT ![j].live = FALSE]]
  <2>1. read' = [read EXCEPT !.jobs = read.jobs, !.leases = ViewedLeases']
    BY <1>7, <1>9
  <2>2. Row(read, {"products", "catalogs", "jobs", "leases", "artifacts", "sessions", "credentials", "grants", "feedback", "training"})
    BY ReadParts DEF Inv, Row
  <2>3. QED
    BY <1>10, <2>1, <2>2 DEF Row
<1>12. P!LeaseLapses
  <2>1. read' = [read EXCEPT !.leases[j].live = FALSE] /\ read.leases[j].live
    <3>1. was.live = TRUE
      BY <1>1 DEF JobRowOK
    <3>2. read.leases[j].live = TRUE
      BY <1>8, <3>1
    <3>3. QED
      BY <1>11, <3>2
  <2>2. QED
    BY <1>8, <2>1 DEF P!LeaseLapses
<1>13. QED
  BY <1>1, <1>7, <1>12, ByLeaseLapses DEF Answered, JobRowOK
\* So does a session's.
LEMMA SessionLapses ==
  ASSUME Inv, read' = Read', UNCHANGED <<work, kept>>, NEW s \in DOMAIN db.sessions, db.sessions[s].live,
         Stores("sessions", s, [db.sessions[s] EXCEPT !.live = FALSE])
  PROVE  Answered
<1> DEFINE was == db.sessions[s]
           row == [was EXCEPT !.live = FALSE]
<1>1. Row(was, SessionFields) /\ was.org \in Orgs /\ was.product \in Products
  BY DEF Inv, SessionsOK, SessionOK, SessionFields
<1>2. Row(row, SessionFields) /\ row.org = was.org /\ row.product = was.product
  BY <1>1 DEF Row, SessionFields
<1>3. db'.sessions = Put(db.sessions, s, row)
  BY OneTable DEF Inv, Tables, Stores
<1>4. SessionsOK'
  BY <1>1, <1>2, <1>3, SessionStored DEF Inv
<1>5. Inv' /\ read' = [read EXCEPT !.sessions = Put(db.sessions, s, row)]
  BY <1>4, SameWork, OnlySessions DEF Stores, Inv
<1>6. read.sessions = db.sessions
  BY Reads
<1>7. Row(db.sessions, DOMAIN db.sessions)
  BY DEF Inv, SessionsOK, Row
<1>8. Put(db.sessions, s, row) = [db.sessions EXCEPT ![s].live = FALSE]
  BY <1>7 DEF Put, Row
<1>9. P!LeaseLapses
  <2>1. read' = [read EXCEPT !.sessions = [@ EXCEPT ![s].live = FALSE]]
    BY <1>5, <1>6, <1>8
  <2>2. read' = [read EXCEPT !.sessions[s].live = FALSE] /\ read.sessions[s].live /\ s \in DOMAIN read.sessions
    BY <1>6, <2>1
  <2>3. QED
    BY <2>2 DEF P!LeaseLapses
<1>10. QED
  BY <1>1, <1>5, <1>9, ByLeaseLapses DEF Answered
\* Time passes for both.
LEMMA LapsesStep == ASSUME Inv, read' = Read', Sensible, Lapses PROVE Answered
BY JobLapses, SessionLapses DEF Lapses

-----------------------------------------------------------------------------
(* Products and their roles. *)

ReadFields == {"products", "catalogs", "jobs", "leases", "artifacts", "sessions", "credentials", "grants", "feedback", "training"}
\* What is read has its ten parts, before a step and after it.
LEMMA ReadRow == ASSUME Inv, read' = Read' PROVE Row(read, ReadFields) /\ Row(read', ReadFields)
BY ReadParts, ReadPartsAfter DEF Inv, Row, ReadFields
\* After a step, what is read is what the rows now amount to.
LEMMA ReadAfter ==
  ASSUME read' = Read'
  PROVE  /\ read'.products = ViewedProducts' /\ read'.catalogs = ViewedCatalogs' /\ read'.jobs = ViewedJobs' /\ read'.leases = ViewedLeases'
         /\ read'.artifacts = ViewedArtifacts' /\ read'.sessions = db'.sessions /\ read'.credentials = db'.credentials
         /\ read'.grants = ViewedGrants' /\ read'.feedback = db'.feedback /\ read'.training = ViewedTraining'
BY ReadPartsAfter
RoleTable(R) == [k \in {x.key : x \in R} |-> (CHOOSE x \in R : x.key = k).credential]
\* A role is read under its key.
LEMMA RolesSeen ==
  ASSUME NEW R, \A r, s \in R : r.key = s.key => r = s, NEW x \in R
  PROVE  x.key \in DOMAIN RoleTable(R) /\ RoleTable(R)[x.key] = x.credential
<1>1. (CHOOSE r \in R : r.key = x.key) = x
  OBVIOUS
<1>2. QED
  BY <1>1 DEF RoleTable
\* Saving a role again replaces what is read under its key.
LEMMA RoleSaved ==
  ASSUME NEW R, \A r, s \in R : r.key = s.key => r = s, NEW x, NEW k, x.key = k
  PROVE  RoleTable({r \in R : r.key # k} \cup {x}) = Put(RoleTable(R), k, x.credential)
<1> DEFINE S == {r \in R : r.key # k} \cup {x}
           before == RoleTable(R)
           after == RoleTable(S)
           put == Put(before, k, x.credential)
<1>1. \A r, s \in S : r.key = s.key => r = s
  OBVIOUS
<1>2. DOMAIN before = {r.key : r \in R} /\ DOMAIN after = {r.key : r \in S} /\ DOMAIN put = DOMAIN before \cup {k}
  BY DEF RoleTable, Put
<1>3. DOMAIN after = DOMAIN put
  BY <1>2
<1>4. ASSUME NEW r \in S PROVE after[r.key] = put[r.key]
  <2>1. after[r.key] = r.credential
    BY <1>1, RolesSeen
  <2>2. CASE r = x
    BY <2>1, <2>2, <1>2 DEF Put
  <2>3. CASE r # x
    <3>1. r \in R /\ r.key # k
      BY <2>3
    <3>2. r.key \in DOMAIN before /\ before[r.key] = r.credential
      BY <3>1, RolesSeen
    <3>3. QED
      BY <2>1, <3>1, <3>2 DEF Put
  <2>4. QED
    BY <2>2, <2>3
<1>5. \A y \in DOMAIN after : after[y] = put[y]
  BY <1>2, <1>4
<1>6. after = [y \in DOMAIN after |-> after[y]] /\ put = [y \in DOMAIN put |-> put[y]]
  BY DEF RoleTable, Put
<1>7. QED
  BY <1>3, <1>5, <1>6
\* A product is read with the table of its roles.
LEMMA ProductSeen ==
  ViewedProducts = [p \in DOMAIN db.products |->
    [org |-> db.products[p].org, key |-> db.products[p].key, active |-> db.products[p].active, roles |-> RoleTable(RolesOf(p))]]
BY DEF ViewedProducts, ViewedProduct, RoleTable
\* And so it is after a step.
LEMMA ProductSeenAfter ==
  ViewedProducts' = [p \in DOMAIN db'.products |->
    [org |-> db'.products[p].org, key |-> db'.products[p].key, active |-> db'.products[p].active, roles |-> RoleTable(RolesOf(p)')]]
BY DEF ViewedProducts, ViewedProduct, RoleTable
\* A product has one role to a key.
LEMMA RolesUnique == ASSUME RolesOK, NEW p PROVE \A r, s \in RolesOf(p) : r.key = s.key => r = s
BY DEF RolesOK, RolesOf

\* A product comes with its default role, in one transaction.
LEMMA PostProductStep ==
  ASSUME Inv, read' = Read', Sensible, NEW o \in Orgs, NEW k \in ProductKeys, NEW p \in Drawn(Products, "products"), PostProduct(o, p, k) PROVE Answered
<1> DEFINE product == [org |-> o, key |-> k, active |-> Null]
           role == [product |-> p, key |-> "default", credential |-> Null]
           products == Put(db.products, p, product)
<1>1. p \in Products /\ p \notin DOMAIN db.products
  BY DrawnFresh
<1>2. /\ db'.products = products /\ db'.roles = db.roles \cup {role}
      /\ Row(db', Tables) /\ \A t \in Tables \ {"products", "roles"} : db'[t] = db[t]
  BY DEF PostProduct, Inv, Row, Tables
<1>3. DOMAIN products = DOMAIN db.products \cup {p} /\ products[p] = product /\ \A q \in DOMAIN db.products : products[q] = db.products[q]
  BY <1>1 DEF Put
<1>4. db'.versions = db.versions /\ db'.tasks = db.tasks /\ db'.journeys = db.journeys /\ db'.coverage = db.coverage /\ db'.types = db.types
      /\ db'.screens = db.screens /\ db'.moves = db.moves /\ db'.plays = db.plays /\ db'.training = db.training /\ db'.jobs = db.jobs /\ db'.artifacts = db.artifacts
      /\ db'.sessions = db.sessions /\ db'.credentials = db.credentials /\ db'.grants = db.grants /\ db'.feedback = db.feedback /\ kept' = kept
  BY <1>2 DEF Tables, PostProduct
<1>5. ProductsOK'
  <2>1. \A q \in DOMAIN products : Row(products[q], {"org", "key", "active"}) /\ products[q].org \in Orgs
          /\ \/ products[q].active = Null
             \/ products[q].active \in DOMAIN db.versions /\ db.versions[products[q].active].product = q /\ db.versions[products[q].active].status = "published"
    <3>1. Row(product, {"org", "key", "active"})
      BY DEF Row
    <3>2. QED
      BY <1>3, <3>1 DEF Inv, ProductsOK, ProductOK
  <2>2. QED
    BY <1>1, <1>2, <1>3, <1>4, <2>1 DEF Inv, ProductsOK, ProductOK
<1>6. \A r \in db.roles : r.product # p
  BY <1>1 DEF Inv, RolesOK
<1>7. RolesOK'
  <2>1. Row(role, {"product", "key", "credential"})
    BY DEF Row
  <2>2. QED
    BY <1>2, <1>3, <1>6, <2>1 DEF Inv, RolesOK
<1>8. VersionsOK'
  BY <1>2, <1>3, <1>4 DEF Inv, VersionsOK, VersionOK
<1>9. Inv'
  BY <1>2, <1>4, <1>5, <1>7, <1>8, CalledOK, KeepJourneys, KeepCoverage, KeepParts, KeepJobs, KeepArtifacts, KeepKept, KeepSessions, KeepGrants
     DEF Inv, PostProduct
<1>10. ViewedProducts' = Put(ViewedProducts, p, [org |-> o, key |-> k, active |-> Null, roles |-> [r \in {"default"} |-> Null]])
  <2>1. \A q \in DOMAIN db.products : RolesOf(q)' = RolesOf(q)
    BY <1>1, <1>2 DEF RolesOf
  <2>2. RolesOf(p)' = {role}
    BY <1>2, <1>6 DEF RolesOf
  <2>3. RoleTable({role}) = [r \in {"default"} |-> Null]
    BY DEF RoleTable
  <2> DEFINE new == [org |-> o, key |-> k, active |-> Null, roles |-> [r \in {"default"} |-> Null]]
             seen == Put(ViewedProducts, p, new)
  <2>4. DOMAIN ViewedProducts' = DOMAIN seen
    BY <1>2, <1>3, ProductSeen, ProductSeenAfter DEF Put
  <2>5. ViewedProducts'[p] = seen[p]
    <3>1. seen[p] = new
      BY DEF Put
    <3>2. ViewedProducts'[p] = [org |-> o, key |-> k, active |-> Null, roles |-> RoleTable(RolesOf(p)')]
      BY <1>2, <1>3, ProductSeenAfter
    <3>3. QED
      BY <2>2, <2>3, <3>1, <3>2
  <2>6. \A q \in DOMAIN db.products : ViewedProducts'[q] = seen[q]
    <3>1. \A q \in DOMAIN db.products : seen[q] = ViewedProducts[q]
      BY <1>1, ProductSeen DEF Put
    <3>2. ASSUME NEW q \in DOMAIN db.products PROVE ViewedProducts'[q] = ViewedProducts[q]
      <4>1. ViewedProducts[q] = [org |-> db.products[q].org, key |-> db.products[q].key, active |-> db.products[q].active, roles |-> RoleTable(RolesOf(q))]
        BY ProductSeen
      <4>2. ViewedProducts'[q] = [org |-> products[q].org, key |-> products[q].key, active |-> products[q].active, roles |-> RoleTable(RolesOf(q)')]
        BY <1>2, <1>3, ProductSeenAfter
      <4>3. QED
        BY <1>3, <2>1, <4>1, <4>2
    <3>3. QED
      BY <3>1, <3>2
  <2>7. seen = [q \in DOMAIN seen |-> seen[q]] /\ DOMAIN seen = DOMAIN db.products \cup {p}
    BY ProductSeen DEF Put
  <2>8. ViewedProducts' = [q \in DOMAIN ViewedProducts' |-> ViewedProducts'[q]]
    BY ProductSeenAfter
  <2> HIDE DEF seen
  <2>9. ViewedProducts' = seen
    BY <2>4, <2>5, <2>6, <2>7, <2>8
  <2>10. QED
    BY <2>9 DEF seen
<1>11. ViewedCatalogs' = ViewedCatalogs /\ ViewedJobs' = ViewedJobs /\ ViewedLeases' = ViewedLeases
       /\ ViewedArtifacts' = ViewedArtifacts /\ ViewedGrants' = ViewedGrants /\ ViewedTraining' = ViewedTraining
  BY <1>4, SameCatalogs, SameJobs, SameLeases DEF ViewedArtifacts, ViewedGrants, ViewedTraining
<1>12. read' = [read EXCEPT !.products = ViewedProducts']
  BY <1>4, <1>11, ReadParts, ReadPartsAfter DEF Inv
<1>13. P!CreateProduct(o, p, k)
  BY <1>1, <1>10, <1>12, Reads, SamePut, ProductSeen DEF P!CreateProduct, P!Saves
<1>14. QED
  BY <1>1, <1>9, <1>13, ByCreateProduct DEF Answered

\* A role is saved, or saved again under its key.
LEMMA PostRoleStep ==
  ASSUME Inv, read' = Read', NEW o \in Orgs, NEW p \in DOMAIN db.products, NEW k \in RoleKeys, NEW c \in Credentials \cup {Null}, PostRole(o, p, k, c)
  PROVE  Answered
<1> DEFINE x == [product |-> p, key |-> k, credential |-> c]
           rows == {r \in db.roles : r.product # p \/ r.key # k} \cup {x}
<1>1. db'.roles = rows /\ db'.products = db.products
  BY OneTable DEF PostRole, Inv, Tables
<1>2. RolesOK'
  <2>1. Row(x, {"product", "key", "credential"})
    BY DEF Row
  <2>2. QED
    BY <1>1, <2>1 DEF Inv, RolesOK
<1>3. Inv' /\ read' = [read EXCEPT !.products = ViewedProducts']
  BY <1>2, CalledOK, OnlyRoles DEF PostRole, Inv
<1>4. RolesOf(p)' = {r \in RolesOf(p) : r.key # k} \cup {x} /\ \A q \in DOMAIN db.products \ {p} : RolesOf(q)' = RolesOf(q)
  BY <1>1 DEF RolesOf
<1>5. RoleTable(RolesOf(p)') = Put(RoleTable(RolesOf(p)), k, c)
  <2> DEFINE R == RolesOf(p)
  <2>1. \A r, s \in R : r.key = s.key => r = s
    BY RolesUnique DEF Inv
  <2>2. x.key = k /\ x.credential = c
    OBVIOUS
  <2>3. RoleTable({r \in R : r.key # k} \cup {x}) = Put(RoleTable(R), k, x.credential)
    <3> HIDE DEF R, x
    <3>1. QED
      BY <2>1, <2>2, RoleSaved
  <2>4. QED
    BY <1>4, <2>2, <2>3
<1>6. ViewedProducts' = [ViewedProducts EXCEPT ![p].roles = P!Put(@, k, c)]
  <2> DEFINE was == [org |-> db.products[p].org, key |-> db.products[p].key, active |-> db.products[p].active, roles |-> RoleTable(RolesOf(p))]
             now == [org |-> db.products[p].org, key |-> db.products[p].key, active |-> db.products[p].active, roles |-> RoleTable(RolesOf(p)')]
  <2>1. ViewedProducts[p] = was /\ DOMAIN ViewedProducts = DOMAIN db.products
    BY ProductSeen
  <2>2. ViewedProducts' = [ViewedProducts EXCEPT ![p] = now]
    BY <1>1, <1>4, ProductSeen, ProductSeenAfter
  <2>3. now = [was EXCEPT !.roles = P!Put(@, k, c)]
    BY <1>5, SamePut
  <2> HIDE DEF was, now
  <2>4. QED
    BY <2>1, <2>2, <2>3
<1>7. p \in P!Mine(o, "products")
  BY Reads, ProductSeen DEF P!Mine, PostRole, Owned
<1>8. P!SaveRoleProfile(o, p, k, c)
  BY <1>3, <1>6, <1>7, Reads DEF P!SaveRoleProfile
<1>9. QED
  BY <1>3, <1>8, BySaveRoleProfile DEF Answered, Inv, ProductsOK

-----------------------------------------------------------------------------
(* What a reader sees of the rows of one version. *)

Except(R, f, value) == {x \in R : x[f] # value}
\* Without its version a row keeps its other fields.
LEMMA WithoutVersion ==
  ASSUME NEW F, NEW x, Row(x, F)
  PROVE  Row(W(x), F \ {"version"}) /\ (\A f \in F \ {"version"} : W(x)[f] = x[f])
<1>1. DOMAIN x = F
  BY DEF Row
<1>2. QED
  BY <1>1 DEF W, Without, Restrict, Row
\* Rows of one version that look the same are the same.
LEMMA SameSeen ==
  ASSUME NEW F, NEW x, NEW y, Row(x, F), Row(y, F), W(x) = W(y), x.version = y.version PROVE x = y
<1>1. \A f \in F \ {"version"} : x[f] = y[f]
  BY WithoutVersion
<1>2. \A f \in F : x[f] = y[f]
  BY <1>1
<1>3. QED
  BY <1>2 DEF Row
\* To filter the rows by a field is to filter what is seen of them.
LEMMA SeenSplit ==
  ASSUME NEW F, NEW R, \A x \in R : Row(x, F), NEW f \in F \ {"version"}, NEW value
  PROVE  SeenOf(Except(R, f, value)) = Except(SeenOf(R), f, value)
<1>1. \A x \in R : W(x)[f] = x[f]
  BY WithoutVersion
<1>2. QED
  BY <1>1 DEF SeenOf, Except

\* The store would find a version, its owner and its status as they are.
LEMMA CatalogNow ==
  ASSUME Inv, NEW v \in DOMAIN db.versions
  PROVE  /\ v \in Versions /\ DOMAIN read.catalogs = DOMAIN db.versions /\ read.catalogs[v] = Compared(v)
         /\ v \in P!Mine(db.versions[v].org, "catalogs") /\ db.versions[v].org \in Orgs
         /\ Open(v) => P!Editable(db.versions[v].org, v)
<1>1. DOMAIN read.catalogs = DOMAIN db.versions /\ read.catalogs[v] = Compared(v)
  BY Reads DEF ViewedCatalogs
<1>2. Compared(v).org = db.versions[v].org /\ Compared(v).status = db.versions[v].status
  BY ComparedIs
<1>3. v \in P!Mine(db.versions[v].org, "catalogs")
  BY <1>1, <1>2 DEF P!Mine
<1>4. v \in Versions /\ db.versions[v].org \in Orgs
  BY DEF Inv, VersionsOK, VersionOK, ProductsOK, ProductOK
<1>5. Open(v) => P!Editable(db.versions[v].org, v)
  BY <1>1, <1>2, <1>3 DEF Open, P!Editable
<1>6. QED
  BY <1>1, <1>3, <1>4, <1>5
\* When one version's rows change, one snapshot changes.
LEMMA OneCatalog ==
  ASSUME NEW v \in DOMAIN db.versions, DOMAIN db'.versions = DOMAIN db.versions,
         \A u \in DOMAIN db.versions \ {v} : Compared(u)' = Compared(u)
  PROVE  ViewedCatalogs' = [ViewedCatalogs EXCEPT ![v] = Compared(v)']
BY DEF ViewedCatalogs

-----------------------------------------------------------------------------
(* Plays and reviews. *)

PlayFields == {"version", "id", "approved"}
\* A play replaces the one of its version and name.
LEMMA SavePlayStep ==
  ASSUME Inv, read' = Read', NEW o \in Orgs, NEW v \in DOMAIN db.versions, NEW n \in Plays, NEW approved \in BOOLEAN,
         SavePlay(o, v, [version |-> v, id |-> n, approved |-> approved])
  PROVE  Answered
<1> DEFINE play == [version |-> v, id |-> n, approved |-> approved]
           seen == [id |-> n, approved |-> approved]
           rows == {x \in db.plays : x.version # v \/ x.id # n} \cup {play}
<1>1. play.id = n /\ play.version = v /\ Row(play, PlayFields) /\ W(play) = seen
  <2>1. Row(play, PlayFields)
    BY DEF Row, PlayFields
  <2>2. W(play) = [f \in PlayFields \ {"version"} |-> play[f]]
    BY <2>1, WithoutVersion DEF Row
  <2>3. PlayFields \ {"version"} = {"id", "approved"}
    BY DEF PlayFields
  <2>4. QED
    BY <2>1, <2>2, <2>3
<1> HIDE DEF play
<1>2. Saves("plays", rows) /\ WorkOK' /\ UNCHANGED kept
  BY <1>1, CalledOK DEF SavePlay, Inv, play
<1>3. db'.plays = rows /\ db'.versions = db.versions /\ db'.journeys = db.journeys /\ db'.coverage = db.coverage
      /\ db'.types = db.types /\ db'.screens = db.screens /\ db'.moves = db.moves
  BY <1>2, OneTable DEF Inv, Tables
<1>4. PartsOK'
  BY <1>1, <1>3 DEF Inv, PartsOK, TypesOK, Worded, Versioned, PlayFields
<1>5. Inv' /\ read' = [read EXCEPT !.catalogs = ViewedCatalogs']
  BY <1>2, <1>4, OnlyPlays
<1>6. Seen(rows, v) = {y \in Seen(db.plays, v) : y.id # n} \cup {seen}
  <2>1. Of(rows, v) = {x \in Of(db.plays, v) : x["id"] # n} \cup {play}
    BY <1>1 DEF Of
  <2>2. \A x \in Of(db.plays, v) : Row(x, PlayFields)
    BY DEF Of, Inv, PartsOK, Versioned, PlayFields
  <2>3. {W(x) : x \in {y \in Of(db.plays, v) : y["id"] # n}} = {y \in Seen(db.plays, v) : y["id"] # n}
    <3>1. "id" \in PlayFields \ {"version"}
      BY DEF PlayFields
    <3>2. SeenOf(Except(Of(db.plays, v), "id", n)) = Except(SeenOf(Of(db.plays, v)), "id", n)
      BY <2>2, <3>1, SeenSplit
    <3>3. QED
      BY <3>2 DEF Seen, SeenOf, Except
  <2>4. Seen(rows, v) = {W(x) : x \in {y \in Of(db.plays, v) : y["id"] # n}} \cup {W(play)}
    BY <2>1 DEF Seen, SeenOf
  <2>5. QED
    BY <1>1, <2>3, <2>4
<1>7. \A u \in DOMAIN db.versions \ {v} : Compared(u)' = Compared(u)
  <2>1. ASSUME NEW u \in DOMAIN db.versions \ {v} PROVE Of(db'.plays, u) = Of(db.plays, u)
    BY <1>1, <1>3 DEF Of
  <2>2. QED
    BY <1>3, <2>1, SameSnapshot
<1>8. read' = [read EXCEPT !.catalogs[v].plays = {x \in @ : x.id # n} \cup {seen}]
  <2>1. Compared(v).plays = Seen(db.plays, v)
    BY ComparedIs
  <2>2. Compared(v)' = [Compared(v) EXCEPT !.plays = Seen(rows, v)]
    <3>1. SeenScreens(v)' = SeenScreens(v)
      BY <1>3, SameScreens
    <3>2. QED
      BY <1>3, <3>1, ComparedIs, ComparedAfter
  <2>3. ViewedCatalogs' = [ViewedCatalogs EXCEPT ![v] = Compared(v)']
    BY <1>3, <1>7, OneCatalog
  <2>4. read.catalogs = ViewedCatalogs /\ read.catalogs[v] = Compared(v)
    BY CatalogNow, Reads
  <2> DEFINE plays == {x \in Seen(db.plays, v) : x.id # n} \cup {seen}
  <2>5. read' = [read EXCEPT !.catalogs = [read.catalogs EXCEPT ![v] = [read.catalogs[v] EXCEPT !.plays = plays]]]
    BY <1>5, <1>6, <2>2, <2>3, <2>4
  <2>6. read.catalogs[v].plays = Seen(db.plays, v)
    BY <2>1, <2>4
  <2>7. QED
    BY <2>5, <2>6
<1>9. P!SaveSalesPlay(o, v, seen)
  <2>1. P!Editable(o, v)
    BY CatalogNow DEF SavePlay, Owned
  <2>2. seen.id = n
    OBVIOUS
  <2>3. QED
    BY <1>8, <2>1, <2>2 DEF P!SaveSalesPlay
<1>10. QED
  BY <1>5, <1>9, CatalogNow, BySaveSalesPlay DEF Answered
\* Plays are captured as drafts and approved one by one.
LEMMA PlayStep ==
  ASSUME Inv, read' = Read', NEW o \in Orgs, NEW v \in DOMAIN db.versions, NEW n \in Plays, TrainPlay(o, v, n) \/ ApprovePlay(o, v, n)
  PROVE  Answered
BY SavePlayStep DEF TrainPlay, ApprovePlay

\* A decision changes the one journey it was made on.
LEMMA PostReviewStep ==
  ASSUME Inv, read' = Read', NEW o \in Orgs, NEW j \in db.journeys, NEW d \in Decisions, PostReview(o, j, d) PROVE Answered
<1> DEFINE v == j.version
           approved == IF d = "approved" THEN j.text ELSE Null
           now == [j EXCEPT !.approval = d, !.approved = approved]
           rows == (db.journeys \ {j}) \cup {now}
<1>1. Row(j, JourneyFields) /\ Id(j) \in JourneyRefs /\ v \in DOMAIN db.versions /\ j.rev \in Nat /\ v \in Versions
  BY DEF Inv, JourneysOK, JourneyOK, Id, JourneyRefs, VersionsOK
<1>2. /\ Row(now, JourneyFields) /\ now.version = v /\ now.key = j.key /\ now.role = j.role /\ now.rev = j.rev /\ now.text = j.text
      /\ now.approval = d /\ now.approved = approved
  BY <1>1 DEF Row, JourneyFields
<1>3. W(now) = [W(j) EXCEPT !.approval = d, !.approved = approved]
  <2>1. W(j) = [f \in JourneyFields \ {"version"} |-> j[f]]
    BY <1>1, WithoutVersion DEF Row
  <2>2. W(now) = [f \in JourneyFields \ {"version"} |-> now[f]]
    <3> HIDE DEF now
    <3>1. QED
      BY <1>2, WithoutVersion DEF Row
  <2>3. QED
    BY <1>1, <2>1, <2>2 DEF Row, JourneyFields
<1>4. W(j).text = j.text
  <2>1. "text" \in JourneyFields \ {"version"}
    BY DEF JourneyFields
  <2>2. QED
    BY <1>1, <2>1, WithoutVersion
<1>5. Saves("journeys", rows) /\ UNCHANGED kept /\ WorkOK'
  <2>1. [kind |-> "review", org |-> o, of |-> Id(j), rework |-> d = "rework_requested"] \in Requests
    BY <1>1 DEF Requests
  <2>2. QED
    BY <2>1, AsksOK DEF PostReview, Inv
<1> HIDE DEF now
<1>6. db'.journeys = rows /\ db'.versions = db.versions /\ db'.tasks = db.tasks /\ db'.coverage = db.coverage
      /\ db'.types = db.types /\ db'.screens = db.screens /\ db'.moves = db.moves /\ db'.plays = db.plays
  BY <1>5, OneTable DEF Inv, Tables
<1>7. Id(now) = Id(j)
  BY <1>2 DEF Id
<1>8. JourneysOK'
  <2>1. \A x \in rows : JourneyOK(x)
    BY <1>1, <1>2, <1>7 DEF Inv, JourneysOK, JourneyOK
  <2>2. \A x, y \in rows : Id(x) = Id(y) => x = y
    BY <1>7 DEF Inv, JourneysOK
  <2>3. QED
    BY <1>6, <2>1, <2>2 DEF JourneysOK, JourneyOK, Id
<1>9. CoverageOK'
  <2>1. ASSUME NEW c \in db.coverage PROVE \E x \in rows : CoveredBy(c, x)
    <3>1. PICK x \in db.journeys : CoveredBy(c, x)
      BY DEF Inv, CoverageOK
    <3>2. CASE x = j
      BY <1>2, <3>1, <3>2 DEF CoveredBy
    <3>3. CASE x # j
      BY <3>1, <3>3
    <3>4. QED
      BY <3>2, <3>3
  <2>2. QED
    BY <1>6, <2>1 DEF Inv, CoverageOK, CoveredBy
<1>10. Inv' /\ read' = [read EXCEPT !.catalogs = ViewedCatalogs']
  BY <1>5, <1>8, <1>9, OnlyJourneys
<1>11. Seen(rows, v) = (Seen(db.journeys, v) \ {W(j)}) \cup {W(now)}
  <2>1. Of(rows, v) = (Of(db.journeys, v) \ {j}) \cup {now}
    BY <1>2 DEF Of
  <2>2. \A x \in Of(db.journeys, v) : W(x) = W(j) => x = j
    BY <1>1, SameSeen DEF Of, Inv, JourneysOK, JourneyOK
  <2>3. QED
    BY <2>1, <2>2 DEF Seen, SeenOf
<1>12. \A u \in DOMAIN db.versions \ {v} : Compared(u)' = Compared(u)
  <2>1. ASSUME NEW u \in DOMAIN db.versions \ {v} PROVE Of(db'.journeys, u) = Of(db.journeys, u)
    BY <1>2, <1>6 DEF Of
  <2>2. QED
    BY <1>6, <2>1, SameSnapshot
<1>13. W(j) \in Compared(v).journeys
  BY ComparedIs DEF Seen, SeenOf, Of
<1>14. read' = [read EXCEPT !.catalogs[v].journeys = (@ \ {W(j)}) \cup {[W(j) EXCEPT !.approval = d, !.approved = approved]}]
  <2>1. Compared(v).journeys = Seen(db.journeys, v)
    BY ComparedIs
  <2>2. Compared(v)' = [Compared(v) EXCEPT !.journeys = Seen(rows, v)]
    <3>1. SeenScreens(v)' = SeenScreens(v)
      BY <1>6, SameScreens
    <3>2. QED
      BY <1>6, <3>1, ComparedIs, ComparedAfter
  <2>3. ViewedCatalogs' = [ViewedCatalogs EXCEPT ![v] = Compared(v)']
    BY <1>1, <1>6, <1>12, OneCatalog
  <2>4. read.catalogs = ViewedCatalogs /\ read.catalogs[v] = Compared(v)
    BY <1>1, CatalogNow, Reads
  <2> DEFINE decided == [W(j) EXCEPT !.approval = d, !.approved = approved]
             journeys == (Seen(db.journeys, v) \ {W(j)}) \cup {decided}
  <2>5. Seen(rows, v) = journeys
    BY <1>3, <1>11
  <2> HIDE DEF journeys
  <2>6. read' = [read EXCEPT !.catalogs = [read.catalogs EXCEPT ![v] = [read.catalogs[v] EXCEPT !.journeys = journeys]]]
    BY <1>10, <2>2, <2>3, <2>4, <2>5
  <2>7. journeys = (read.catalogs[v].journeys \ {W(j)}) \cup {decided}
    BY <2>1, <2>4 DEF journeys
  <2> HIDE DEF decided
  <2>8. read' = [read EXCEPT !.catalogs[v].journeys = (@ \ {W(j)}) \cup {decided}]
    BY <2>6, <2>7
  <2>9. QED
    BY <2>8 DEF decided
<1>15. P!ReviewJourney(o, v, W(j), d)
  <2>1. P!Editable(o, v) /\ W(j) \in read.catalogs[v].journeys
    BY <1>1, <1>13, CatalogNow DEF PostReview, Owned
  <2>2. QED
    BY <1>4, <1>14, <2>1 DEF P!ReviewJourney
<1>16. v \in DOMAIN read.catalogs \cap Versions /\ W(j) \in read.catalogs[v].journeys
  BY <1>1, <1>13, CatalogNow
<1>17. QED
  BY <1>10, <1>15, <1>16, ByReviewJourney DEF Answered

-----------------------------------------------------------------------------
(* Publication. *)

\* Publishing retires what was published, and takes its place.
LEMMA PublishStep ==
  ASSUME Inv, read' = Read', Sensible, NEW f \in work.requests, PublishCatalog(f) PROVE Answered
<1> DEFINE v == f.of
           p == db.versions[v].product
           o == db.versions[v].org
           Status(x) == IF x = v THEN "published"
                        ELSE IF db.versions[x].product = p /\ db.versions[x].status = "published" THEN "retired"
                        ELSE db.versions[x].status
           versions == [x \in DOMAIN db.versions |-> [db.versions[x] EXCEPT !.status = Status(x)]]
           products == [db.products EXCEPT ![p].active = v]
<1>1. v \in Versions /\ v \in DOMAIN db.versions /\ p \in DOMAIN db.products /\ o \in Orgs /\ o = db.products[p].org
  BY CatalogNow DEF PublishCatalog, Open, Inv, VersionsOK, VersionOK
<1>2. db' = [db EXCEPT !.versions = versions, !.products[p].active = v]
  BY DEF PublishCatalog
<1>3. /\ db'.versions = versions /\ db'.products = products
      /\ Row(db', Tables) /\ \A t \in Tables \ {"versions", "products"} : db'[t] = db[t]
  BY <1>2 DEF Inv, Row, Tables
<1>4. db'.roles = db.roles /\ db'.tasks = db.tasks /\ db'.journeys = db.journeys /\ db'.coverage = db.coverage /\ db'.types = db.types
      /\ db'.screens = db.screens /\ db'.moves = db.moves /\ db'.plays = db.plays /\ db'.training = db.training /\ db'.jobs = db.jobs /\ db'.artifacts = db.artifacts
      /\ db'.sessions = db.sessions /\ db'.credentials = db.credentials /\ db'.grants = db.grants /\ db'.feedback = db.feedback /\ kept' = kept
  BY <1>3 DEF Tables, PublishCatalog
<1>5. \A x \in DOMAIN db.versions : Row(db.versions[x], {"org", "product", "n", "status"})
  BY DEF Inv, VersionsOK, VersionOK
<1>6. ASSUME NEW x \in DOMAIN db.versions
      PROVE  /\ Row(versions[x], {"org", "product", "n", "status"}) /\ versions[x].status = Status(x)
             /\ versions[x].org = db.versions[x].org /\ versions[x].product = db.versions[x].product /\ versions[x].n = db.versions[x].n
  BY <1>5 DEF Row
<1> DEFINE product == [db.products[p] EXCEPT !.active = v]
<1>7. /\ DOMAIN products = DOMAIN db.products /\ products[p] = product /\ \A q \in DOMAIN products \ {p} : products[q] = db.products[q]
      /\ Row(product, {"org", "key", "active"}) /\ product.org = o /\ product.key = db.products[p].key /\ product.active = v
  <2>1. DOMAIN products = DOMAIN db.products /\ products[p] = product /\ \A q \in DOMAIN products \ {p} : products[q] = db.products[q]
    BY <1>1
  <2>2. Row(db.products[p], {"org", "key", "active"})
    BY <1>1 DEF Inv, ProductsOK, ProductOK
  <2>3. Row(product, {"org", "key", "active"}) /\ product.org = db.products[p].org /\ product.key = db.products[p].key /\ product.active = v
    BY <2>2 DEF Row
  <2>4. QED
    BY <1>1, <2>1, <2>3
<1>8. DOMAIN versions = DOMAIN db.versions
  OBVIOUS
<1>9. versions[v].status = "published" /\ versions[v].product = p
  BY <1>1, <1>6
<1> HIDE DEF product, versions
<1>10. ProductsOK'
  <2>1. ASSUME NEW q \in DOMAIN products
        PROVE  /\ Row(products[q], {"org", "key", "active"}) /\ products[q].org \in Orgs
               /\ \/ products[q].active = Null
                  \/ products[q].active \in DOMAIN versions /\ versions[products[q].active].product = q /\ versions[products[q].active].status = "published"
    <3>1. CASE q = p
      BY <1>1, <1>7, <1>8, <1>9, <3>1
    <3>2. CASE q # p
      <4> DEFINE u == db.products[q].active
      <4>1. products[q] = db.products[q] /\ Row(products[q], {"org", "key", "active"}) /\ products[q].org \in Orgs
        BY <1>7, <3>2 DEF Inv, ProductsOK, ProductOK
      <4>2. u = Null \/ (u \in DOMAIN db.versions /\ db.versions[u].product = q /\ db.versions[u].status = "published")
        BY <1>7 DEF Inv, ProductsOK, ProductOK
      <4>3. u \in DOMAIN db.versions /\ db.versions[u].product = q /\ db.versions[u].status = "published"
            => versions[u].product = q /\ versions[u].status = "published"
        BY <1>6, <3>2
      <4>4. QED
        BY <1>8, <4>1, <4>2, <4>3
    <3>3. QED
      BY <3>1, <3>2
  <2> HIDE DEF products
  <2>2. QED
    BY <1>3, <1>7, <2>1 DEF Inv, ProductsOK, ProductOK
<1>11. VersionsOK'
  <2>1. \A x \in DOMAIN db.versions : versions[x].product \in DOMAIN products /\ versions[x].org = products[versions[x].product].org
    <3>1. \A q \in DOMAIN db.products : products[q].org = db.products[q].org
      BY <1>1, <1>7
    <3>2. \A x \in DOMAIN db.versions : db.versions[x].product \in DOMAIN db.products /\ db.versions[x].org = db.products[db.versions[x].product].org
      BY DEF Inv, VersionsOK, VersionOK
    <3> HIDE DEF products
    <3>3. QED
      BY <1>6, <1>7, <3>1, <3>2
  <2> HIDE DEF products
  <2>2. QED
    BY <1>3, <1>6, <1>8, <2>1 DEF Inv, VersionsOK, VersionOK
<1> HIDE DEF products
<1>12. Inv'
  <2>1. WorkOK'
    BY DoneOK DEF PublishCatalog, Inv
  <2>2. QED
    BY <2>1, <1>3, <1>4, <1>7, <1>8, <1>10, <1>11, KeepRoles, KeepJourneys, KeepCoverage, KeepParts, KeepJobs, KeepArtifacts, KeepKept, KeepSessions, KeepGrants
       DEF Inv
<1>13. ViewedJobs' = ViewedJobs /\ ViewedLeases' = ViewedLeases /\ ViewedArtifacts' = ViewedArtifacts /\ ViewedGrants' = ViewedGrants
       /\ ViewedTraining' = ViewedTraining
  BY <1>4, SameJobs, SameLeases DEF ViewedArtifacts, ViewedGrants, ViewedTraining
<1>14. read' = [read EXCEPT !["catalogs"] = ViewedCatalogs', !["products"] = ViewedProducts']
  <2>1. \A h \in ReadFields \ {"catalogs", "products"} : read'[h] = read[h]
    BY <1>4, <1>13, Reads, ReadAfter DEF ReadFields
  <2>2. read' = [read EXCEPT !["catalogs"] = read'["catalogs"], !["products"] = read'["products"]]
    <3>1. "catalogs" \in ReadFields /\ "products" \in ReadFields /\ "catalogs" # "products"
      BY DEF ReadFields
    <3>2. QED
      BY <2>1, <3>1, ReadRow, TwoFields
  <2>3. QED
    BY <2>2, ReadAfter
<1>15. ViewedProducts' = [ViewedProducts EXCEPT ![p].active = v]
  <2> DEFINE was == [org |-> db.products[p].org, key |-> db.products[p].key, active |-> db.products[p].active, roles |-> RoleTable(RolesOf(p))]
             now == [org |-> db.products[p].org, key |-> db.products[p].key, active |-> v, roles |-> RoleTable(RolesOf(p))]
  <2>0. \A q : RolesOf(q)' = RolesOf(q)
    BY <1>4 DEF RolesOf
  <2>1. ViewedProducts[p] = was /\ DOMAIN ViewedProducts = DOMAIN db.products
    BY <1>1, ProductSeen
  <2>2. ViewedProducts' = [ViewedProducts EXCEPT ![p] = now]
    BY <1>1, <1>3, <1>7, <2>0, ProductSeen, ProductSeenAfter
  <2>3. now = [was EXCEPT !.active = v]
    OBVIOUS
  <2> HIDE DEF was, now
  <2>4. QED
    BY <2>1, <2>2, <2>3
<1>16. ViewedCatalogs' = [x \in DOMAIN ViewedCatalogs |-> [ViewedCatalogs[x] EXCEPT !.status = Status(x)]]
  <2>1. ASSUME NEW x \in DOMAIN db.versions PROVE Compared(x)' = [Compared(x) EXCEPT !.status = Status(x)]
    <3>0. SeenScreens(x)' = SeenScreens(x)
      BY <1>4, SameScreens
    <3>1. Compared(x)' = [org |-> db.versions[x].org, product |-> db.versions[x].product, n |-> db.versions[x].n, status |-> Status(x),
                         journeys |-> Seen(db.journeys, x), coverage |-> Seen(db.coverage, x), screens |-> SeenScreens(x),
                         moves |-> Seen(db.moves, x), plays |-> Seen(db.plays, x)]
      BY <1>3, <1>4, <1>6, <3>0, ComparedAfter
    <3> HIDE DEF Status
    <3>2. QED
      BY <3>1, ComparedIs
  <2>2. ViewedCatalogs' = [x \in DOMAIN db.versions |-> Compared(x)']
    BY <1>3, <1>8 DEF ViewedCatalogs
  <2> HIDE DEF Status
  <2>3. QED
    BY <2>1, <2>2 DEF ViewedCatalogs
<1>17. P!Publish(o, v)
  <2>1. v \in P!Mine(o, "catalogs") /\ read.catalogs = ViewedCatalogs /\ DOMAIN ViewedCatalogs = DOMAIN db.versions
    BY <1>1, CatalogNow, Reads DEF ViewedCatalogs
  <2>2. \A x \in DOMAIN db.versions : /\ read.catalogs[x].product = db.versions[x].product /\ read.catalogs[x].status = db.versions[x].status
                                      /\ read.catalogs[x].journeys = Seen(db.journeys, x)
    BY <2>1, ComparedIs DEF ViewedCatalogs
  <2>3. \A x \in DOMAIN read.catalogs :
          Status(x) = IF x = v THEN "published"
                      ELSE IF x \in P!OfProduct(read.catalogs, read.catalogs[v].product) /\ read.catalogs[x].status = "published" THEN "retired"
                      ELSE read.catalogs[x].status
    BY <1>1, <2>1, <2>2 DEF P!OfProduct
  <2>4. read.catalogs[v].journeys # {} /\ \A j \in read.catalogs[v].journeys : j.approval = "approved" /\ j.approved = j.text
    <3>1. Of(db.journeys, v) # {} /\ \A j \in Of(db.journeys, v) : j.approval = "approved" /\ j.approved = j.text /\ Row(j, JourneyFields)
      BY DEF PublishCatalog, Approved, Inv, JourneysOK, JourneyOK, Of
    <3>2. {"approval", "approved", "text"} \subseteq JourneyFields \ {"version"}
      BY DEF JourneyFields
    <3>3. \A j \in Of(db.journeys, v) : W(j).approval = "approved" /\ W(j).approved = W(j).text
      <4>1. TAKE j \in Of(db.journeys, v)
      <4>2. \A g \in JourneyFields \ {"version"} : W(j)[g] = j[g]
        BY <3>1, WithoutVersion
      <4>3. QED
        BY <3>1, <3>2, <4>2
    <3>4. QED
      BY <1>1, <2>2, <3>1, <3>3 DEF Seen, SeenOf
  <2>5. read' = [read EXCEPT !.catalogs = [x \in DOMAIN @ |-> [@[x] EXCEPT !.status = Status(x)]], !.products[p].active = v]
    <3> HIDE DEF Status, p, v
    <3>1. ViewedCatalogs' = [x \in DOMAIN read.catalogs |-> [read.catalogs[x] EXCEPT !.status = Status(x)]]
      BY <1>16, Reads
    <3>2. ViewedProducts' = [read.products EXCEPT ![p].active = v]
      BY <1>15, Reads
    <3> DEFINE catalogs == [x \in DOMAIN read.catalogs |-> [read.catalogs[x] EXCEPT !.status = Status(x)]]
    <3>3. read' = [read EXCEPT !["catalogs"] = catalogs, !["products"] = [read.products EXCEPT ![p].active = v]]
      BY <1>14, <3>1, <3>2
    <3> HIDE DEF catalogs
    <3>4. read' = [read EXCEPT !.catalogs = catalogs, !.products[p].active = v]
      BY <3>3
    <3>5. QED
      BY <3>4 DEF catalogs
  <2> DEFINE StatusSeen(x) == IF x = v THEN "published"
                      ELSE IF x \in P!OfProduct(read.catalogs, read.catalogs[v].product) /\ read.catalogs[x].status = "published" THEN "retired"
                      ELSE read.catalogs[x].status
  <2>6. \A x \in DOMAIN read.catalogs : Status(x) = StatusSeen(x)
    BY <2>3
  <2> HIDE DEF Status
  <2>7. [x \in DOMAIN read.catalogs |-> [read.catalogs[x] EXCEPT !.status = Status(x)]]
        = [x \in DOMAIN read.catalogs |-> [read.catalogs[x] EXCEPT !.status = StatusSeen(x)]]
    <3> HIDE DEF StatusSeen
    <3>1. QED
      BY <2>6
  <2>8. read' = [read EXCEPT !.catalogs = [x \in DOMAIN @ |-> [@[x] EXCEPT !.status = StatusSeen(x)]], !.products[read.catalogs[v].product].active = v]
    <3> HIDE DEF StatusSeen
    <3>1. QED
      BY <1>1, <2>2, <2>5, <2>7
  <2>9. QED
    BY <2>1, <2>4, <2>8 DEF P!Publish
<1>18. QED
  BY <1>1, <1>12, <1>17, ByPublish DEF Answered

-----------------------------------------------------------------------------
(* Drafts. *)

\* Both modules take the same maximum.
LEMMA SameMax == \A S : P!Max(S) = Max(S)
BY DEF P!Max, Max
CoverageFields == {"version", "role", "key"}
ScreenFields == {"version", "role", "screen"}
MoveFields == {"version", "role", "from", "to"}
TaskFields == {"version", "key"}
\* Every row is of a version there is.
LEMMA RowsOfVersions ==
  ASSUME Inv
  PROVE  /\ \A x \in db.journeys : Row(x, JourneyFields) /\ x.version \in DOMAIN db.versions
         /\ \A x \in db.coverage : Row(x, CoverageFields) /\ x.version \in DOMAIN db.versions
         /\ \A x \in db.screens : Row(x, ScreenFields) /\ x.version \in DOMAIN db.versions
         /\ \A x \in db.moves : Row(x, MoveFields) /\ x.version \in DOMAIN db.versions
         /\ \A x \in db.plays : Row(x, PlayFields) /\ x.version \in DOMAIN db.versions
<1>1. \A x \in db.journeys : Row(x, JourneyFields) /\ x.version \in DOMAIN db.versions
  BY DEF Inv, JourneysOK, JourneyOK, Id
<1>2. \A x \in db.coverage : Row(x, CoverageFields) /\ x.version \in DOMAIN db.versions
  BY <1>1 DEF Inv, CoverageOK, CoveredBy, CoverageFields
<1>3. QED
  BY <1>1, <1>2 DEF Inv, PartsOK, Versioned, ScreenFields, MoveFields, PlayFields

\* A copy is the same row under another version.
CopyOf(x, v) == [x EXCEPT !.version = v]
\* A copy keeps every field but its version.
LEMMA CopyIs ==
  ASSUME NEW F, "version" \in F, NEW x, Row(x, F), NEW v
  PROVE  /\ Row(CopyOf(x, v), F) /\ CopyOf(x, v).version = v
         /\ \A g \in F \ {"version"} : CopyOf(x, v)[g] = x[g]
         /\ W(CopyOf(x, v)) = W(x)
<1>1. Row(CopyOf(x, v), F) /\ CopyOf(x, v).version = v /\ \A g \in F \ {"version"} : CopyOf(x, v)[g] = x[g]
  BY DEF Row, CopyOf
<1>2. W(CopyOf(x, v)) = [g \in F \ {"version"} |-> CopyOf(x, v)[g]]
  BY <1>1, WithoutVersion DEF Row
<1>3. W(x) = [g \in F \ {"version"} |-> x[g]]
  BY WithoutVersion DEF Row
<1>4. QED
  BY <1>1, <1>2, <1>3
Copied(F, rows, source, v) ==
  /\ Copies(rows, source, v) = {CopyOf(x, v) : x \in Of(rows, source)}
  /\ \A x \in Copies(rows, source, v) : Row(x, F) /\ x.version = v
  /\ Seen(rows \cup Copies(rows, source, v), v) = Seen(rows, source)
  /\ \A u : u # v => Of(rows \cup Copies(rows, source, v), u) = Of(rows, u)
\* Copying adds to the new version what was seen of the old one.
LEMMA CopiesAre ==
  ASSUME NEW F, "version" \in F, NEW rows, \A x \in rows : Row(x, F), NEW source, NEW v, source # v, Of(rows, v) = {}
  PROVE  Copied(F, rows, source, v)
<1> DEFINE C == Copies(rows, source, v)
<1>1. C = {CopyOf(x, v) : x \in Of(rows, source)}
  BY DEF Copies, CopyOf
<1>2. \A x \in C : Row(x, F) /\ x.version = v
  BY <1>1, CopyIs DEF Of
<1>3. Of(rows \cup C, v) = C
  BY <1>2 DEF Of
<1>4. \A x \in Of(rows, source) : W(CopyOf(x, v)) = W(x)
  BY CopyIs DEF Of
<1>5. SeenOf(C) = Seen(rows, source)
  BY <1>1, <1>4 DEF Seen, SeenOf
<1>6. \A u : u # v => Of(rows \cup C, u) = Of(rows, u)
  BY <1>2 DEF Of
<1>7. Seen(rows \cup C, v) = Seen(rows, source)
  BY <1>3, <1>5 DEF Seen
<1>8. QED
  BY <1>1, <1>2, <1>6, <1>7 DEF Copied

TypesCopied(source, v) ==
  LET copied == [k \in {<<v, t[2]>> : t \in {x \in DOMAIN db.types : x[1] = source}} |-> db.types[<<source, k[2]>>]]
  IN db'.types = Over(copied, db.types)
\* Types are copied with the screens, and those of other versions left alone.
LEMMA CopiedTypes ==
  ASSUME Inv, NEW source \in DOMAIN db.versions, NEW v, v \notin DOMAIN db.versions, TypesCopied(source, v),
         db'.screens = db.screens \cup Copies(db.screens, source, v)
  PROVE  /\ SeenScreens(v)' = SeenScreens(source) /\ TypesOK'
         /\ \A u \in DOMAIN db.versions : \A s \in Of(db.screens, u) : db'.types[<<s.version, s.screen>>] = db.types[<<s.version, s.screen>>]
<1> DEFINE K == {<<v, t[2]>> : t \in {x \in DOMAIN db.types : x[1] = source}}
<1>1. /\ DOMAIN db'.types = K \cup DOMAIN db.types
      /\ \A k \in K : db'.types[k] = db.types[<<source, k[2]>>]
      /\ \A k \in DOMAIN db.types \ K : db'.types[k] = db.types[k]
  BY DEF TypesCopied, Over
<1>2. \A x \in db.screens : Row(x, ScreenFields) /\ x.version \in DOMAIN db.versions /\ <<x.version, x.screen>> \in DOMAIN db.types
  BY RowsOfVersions DEF Inv, PartsOK, TypesOK
<1>3. \A k \in DOMAIN db.types : k = <<k[1], k[2]>> /\ Worded(k)
  BY DEF Inv, PartsOK, TypesOK
<1>4. ASSUME NEW x \in Of(db.screens, source)
      PROVE  /\ CopyOf(x, v).version = v /\ CopyOf(x, v).screen = x.screen /\ CopyOf(x, v).role = x.role /\ x.version = source
             /\ <<source, x.screen>> \in DOMAIN db.types /\ <<v, x.screen>> \in K
  <2>1. x.version = source /\ Row(x, ScreenFields) /\ <<source, x.screen>> \in DOMAIN db.types
    BY <1>2 DEF Of
  <2>2. "version" \in ScreenFields /\ {"screen", "role"} \subseteq ScreenFields \ {"version"}
    BY DEF ScreenFields
  <2>3. CopyOf(x, v).version = v /\ \A g \in ScreenFields \ {"version"} : CopyOf(x, v)[g] = x[g]
    BY <2>1, <2>2, CopyIs
  <2>4. <<v, x.screen>> \in K
    BY <2>1
  <2>5. QED
    BY <2>1, <2>2, <2>3, <2>4
<1>5. Copies(db.screens, source, v) = {CopyOf(x, v) : x \in Of(db.screens, source)}
  BY DEF Copies, CopyOf
<1>6. Of(db'.screens, v) = {CopyOf(x, v) : x \in Of(db.screens, source)}
  BY <1>2, <1>4, <1>5 DEF Of
<1> HIDE DEF K
<1>7. ASSUME NEW x \in Of(db.screens, source) PROVE Told(CopyOf(x, v))' = Told(x)
  <2>1. db'.types[<<v, x.screen>>] = db.types[<<source, x.screen>>]
    BY <1>1, <1>4
  <2>2. QED
    BY <1>4, <2>1 DEF Told
<1>8. SeenScreens(v)' = SeenScreens(source)
  BY <1>6, <1>7 DEF SeenScreens
<1>9. \A k \in K : k = <<v, k[2]>> /\ <<source, k[2]>> \in DOMAIN db.types
  BY <1>3 DEF K
<1>10. TypesOK'
  <2>1. ASSUME NEW k \in DOMAIN db'.types PROVE k = <<k[1], k[2]>> /\ Worded(k)'
    <3>1. CASE k \in K
      <4>1. Worded(<<source, k[2]>>) /\ db'.types[k] = db.types[<<source, k[2]>>]
        BY <1>1, <1>3, <1>9, <3>1
      <4>2. QED
        BY <1>9, <3>1, <4>1 DEF Worded
    <3>2. CASE k \notin K
      BY <1>1, <1>3, <3>2 DEF Worded
    <3>3. QED
      BY <3>1, <3>2
  <2>2. \A s \in db'.screens : <<s.version, s.screen>> \in DOMAIN db'.types
    BY <1>1, <1>2, <1>4, <1>5
  <2>3. QED
    BY <2>1, <2>2 DEF TypesOK, Worded
<1>11. \A u \in DOMAIN db.versions : \A s \in Of(db.screens, u) : db'.types[<<s.version, s.screen>>] = db.types[<<s.version, s.screen>>]
  BY <1>1, <1>2, <1>9 DEF Of
<1>12. QED
  BY <1>8, <1>10, <1>11

\* Copied rows keep the keys that tie rows together.
LEMMA CopiesOK ==
  ASSUME Inv, NEW source \in DOMAIN db.versions, NEW v \in Versions \ DOMAIN db.versions, DOMAIN db'.versions = DOMAIN db.versions \cup {v},
         db'.tasks = db.tasks \cup Copies(db.tasks, source, v), db'.journeys = db.journeys \cup Copies(db.journeys, source, v),
         db'.coverage = db.coverage \cup Copies(db.coverage, source, v)
  PROVE  JourneysOK' /\ CoverageOK'
<1>1. /\ \A x \in db.journeys : Row(x, JourneyFields) /\ x.version \in DOMAIN db.versions
      /\ \A x \in db.coverage : Row(x, CoverageFields) /\ x.version \in DOMAIN db.versions
  BY RowsOfVersions
<1>2. "version" \in JourneyFields /\ "version" \in CoverageFields
  BY DEF JourneyFields, CoverageFields
<1> DEFINE C == Copies(db.journeys, source, v)
<1>3. \A y \in C : \E x \in Of(db.journeys, source) : y = CopyOf(x, v)
  BY DEF Copies, CopyOf
<1>4. ASSUME NEW x \in db.journeys
      PROVE  /\ Row(CopyOf(x, v), JourneyFields) /\ CopyOf(x, v).version = v /\ CopyOf(x, v).key = x.key /\ CopyOf(x, v).role = x.role
             /\ CopyOf(x, v).rev = x.rev
  <2>1. {"key", "role", "rev"} \subseteq JourneyFields \ {"version"}
    BY DEF JourneyFields
  <2>2. \A g \in JourneyFields \ {"version"} : CopyOf(x, v)[g] = x[g]
    BY <1>1, <1>2, CopyIs
  <2>3. QED
    BY <1>1, <1>2, <2>1, <2>2, CopyIs
<1>5. JourneysOK'
  <2>1. \A x \in db.journeys : Id(x) \in (DOMAIN db.versions) \X Keys \X RoleKeys /\ x.rev \in Nat
    BY DEF Inv, JourneysOK, JourneyOK
  <2>2. ASSUME NEW y \in C
        PROVE  Row(y, JourneyFields) /\ Id(y) \in (DOMAIN db'.versions) \X Keys \X RoleKeys /\ y.rev \in Nat /\ y.version = v
    <3>1. PICK x \in Of(db.journeys, source) : y = CopyOf(x, v)
      BY <1>3
    <3>2. x \in db.journeys
      BY DEF Of
    <3>3. y.version = v /\ y.key = x.key /\ y.role = x.role /\ y.rev = x.rev /\ Row(y, JourneyFields)
      BY <1>4, <3>1, <3>2
    <3>4. QED
      BY <2>1, <3>2, <3>3 DEF Id
  <2>3. \A x \in db.journeys : Row(x, JourneyFields) /\ Id(x) \in (DOMAIN db'.versions) \X Keys \X RoleKeys /\ x.rev \in Nat
    BY <1>1, <2>1 DEF Id
  <2>4. ASSUME NEW y \in C, NEW z \in C, Id(y) = Id(z) PROVE y = z
    <3>1. PICK a \in Of(db.journeys, source) : y = CopyOf(a, v)
      BY <1>3
    <3>2. PICK b \in Of(db.journeys, source) : z = CopyOf(b, v)
      BY <1>3
    <3>3. a \in db.journeys /\ b \in db.journeys /\ a.version = source /\ b.version = source
      BY DEF Of
    <3>4. y.key = a.key /\ y.role = a.role
      BY <1>4, <3>1, <3>3
    <3>5. z.key = b.key /\ z.role = b.role
      BY <1>4, <3>2, <3>3
    <3>6. Id(a) = Id(b)
      BY <2>4, <3>3, <3>4, <3>5 DEF Id
    <3>7. QED
      BY <3>1, <3>2, <3>3, <3>6 DEF Inv, JourneysOK
  <2>5. ASSUME NEW y \in C, NEW z \in db.journeys PROVE Id(y) # Id(z)
    BY <1>1, <2>2 DEF Id
  <2>6. \A x, y \in db.journeys : Id(x) = Id(y) => x = y
    BY DEF Inv, JourneysOK
  <2> HIDE DEF C
  <2>7. \A x, y \in db.journeys \cup C : Id(x) = Id(y) => x = y
    BY <2>4, <2>5, <2>6
  <2>8. \A y \in db.journeys \cup C : Row(y, JourneyFields) /\ Id(y) \in (DOMAIN db'.versions) \X Keys \X RoleKeys /\ y.rev \in Nat
    BY <2>2, <2>3
  <2>9. db'.journeys = db.journeys \cup C
    BY DEF C
  <2>10. QED
    BY <2>7, <2>8, <2>9 DEF JourneysOK, JourneyOK, Id
<1>6. ASSUME NEW c \in db'.coverage
      PROVE  /\ Row(c, CoverageFields) /\ [version |-> c.version, key |-> c.key] \in db'.tasks
             /\ \E j \in db'.journeys : j.version = c.version /\ j.key = c.key /\ j.role = c.role
  <2>1. CASE c \in db.coverage
    BY <1>1, <2>1 DEF Inv, CoverageOK, CoveredBy
  <2>2. CASE c \in Copies(db.coverage, source, v)
    <3>1. PICK d \in Of(db.coverage, source) : c = CopyOf(d, v)
      BY <2>2 DEF Copies, CopyOf
    <3>2. d \in db.coverage /\ d.version = source
      BY DEF Of
    <3>3. Row(c, CoverageFields) /\ c.version = v /\ c.key = d.key /\ c.role = d.role
      <4>1. {"key", "role"} \subseteq CoverageFields \ {"version"}
        BY DEF CoverageFields
      <4>2. \A g \in CoverageFields \ {"version"} : CopyOf(d, v)[g] = d[g]
        BY <1>1, <1>2, <3>2, CopyIs
      <4>3. QED
        BY <1>1, <1>2, <3>1, <3>2, <4>1, <4>2, CopyIs
    <3>4. [version |-> c.version, key |-> c.key] \in db'.tasks
      <4> DEFINE t == [version |-> source, key |-> d.key]
      <4>1. t \in Of(db.tasks, source)
        BY <3>2 DEF Inv, CoverageOK, Of
      <4>2. [t EXCEPT !.version = v] = [version |-> v, key |-> d.key]
        OBVIOUS
      <4>3. [t EXCEPT !.version = v] \in Copies(db.tasks, source, v)
        BY <4>1 DEF Copies
      <4>4. QED
        BY <3>3, <4>2, <4>3
    <3>5. PICK i \in db.journeys : i.version = source /\ i.key = d.key /\ i.role = d.role
      BY <3>2 DEF Inv, CoverageOK, CoveredBy
    <3>6. CopyOf(i, v) \in C
      BY <3>5 DEF Copies, CopyOf, Of
    <3>7. QED
      BY <1>4, <3>3, <3>4, <3>5, <3>6
  <2>3. QED
    BY <2>1, <2>2
<1>7. CoverageOK'
  BY <1>6 DEF CoverageOK, CoveredBy, CoverageFields
<1>8. QED
  BY <1>5, <1>7

\* A version is added; what is seen of the others stays.
LEMMA DraftAdded ==
  ASSUME Inv, read' = Read', WorkOK', kept' = kept, NEW p \in DOMAIN db.products, NEW v \in Versions \ DOMAIN db.versions, NEW row,
         Row(row, {"org", "product", "n", "status"}), row.product = p, row.org = db.products[p].org,
         Row(db', Tables), db'.versions = Put(db.versions, v, row), db'.products = db.products, db'.roles = db.roles, db'.training = db.training,
         db'.jobs = db.jobs, db'.artifacts = db.artifacts, db'.sessions = db.sessions, db'.credentials = db.credentials, db'.grants = db.grants,
         db'.feedback = db.feedback, JourneysOK', CoverageOK', PartsOK', \A u \in DOMAIN db.versions : Compared(u)' = Compared(u)
  PROVE  Inv' /\ read' = [read EXCEPT !.catalogs = Put(read.catalogs, v, Compared(v)')]
<1> DEFINE versions == Put(db.versions, v, row)
<1>1. DOMAIN versions = DOMAIN db.versions \cup {v} /\ versions[v] = row /\ \A u \in DOMAIN db.versions : versions[u] = db.versions[u]
  BY DEF Put
<1>2. ProductsOK'
  BY <1>1 DEF Inv, ProductsOK, ProductOK
<1>3. VersionsOK'
  BY <1>1 DEF Inv, VersionsOK, VersionOK
<1>4. Inv'
  BY <1>2, <1>3, KeepRoles, KeepJobs, KeepArtifacts, KeepKept, KeepSessions, KeepGrants DEF Inv
<1>5. ViewedProducts' = ViewedProducts /\ ViewedJobs' = ViewedJobs /\ ViewedLeases' = ViewedLeases /\ ViewedArtifacts' = ViewedArtifacts
      /\ ViewedGrants' = ViewedGrants /\ ViewedTraining' = ViewedTraining
  BY SameProducts, SameJobs, SameLeases DEF ViewedArtifacts, ViewedGrants, ViewedTraining
<1>6. read' = [read EXCEPT !.catalogs = ViewedCatalogs']
  BY <1>5, ReadParts, ReadPartsAfter DEF Inv
<1>7. ViewedCatalogs' = Put(ViewedCatalogs, v, Compared(v)')
  <2>1. ViewedCatalogs' = [u \in DOMAIN versions |-> Compared(u)']
    BY DEF ViewedCatalogs
  <2> HIDE DEF versions
  <2>2. QED
    BY <1>1, <2>1 DEF ViewedCatalogs, Put
<1>8. QED
  BY <1>4, <1>6, <1>7, Reads

\* A record that differs in three fields is those fields replaced.
LEMMA ThreeFields ==
  ASSUME NEW F, NEW f \in F, NEW g \in F, NEW h \in F, f # g, f # h, g # h, NEW r, NEW s, Row(r, F), Row(s, F),
         \A i \in F \ {f, g, h} : s[i] = r[i]
  PROVE  s = [r EXCEPT ![f] = s[f], ![g] = s[g], ![h] = s[h]]
BY DEF Row
SnapshotFields == {"org", "product", "n", "status", "journeys", "coverage", "screens", "moves", "plays"}
VersionFields == {"org", "product", "n", "status"}
\* A draft begins as the store's copy of what is published.
LEMMA PostCatalogStep ==
  ASSUME Inv, read' = Read', Sensible, NEW o \in Orgs, NEW p \in DOMAIN db.products, NEW v \in Drawn(Versions, "versions"), PostCatalog(o, p, v)
  PROVE  Answered
<1> DEFINE active == db.products[p].active
           own == OfProduct(db.versions, p)
           n == Max({0} \cup {db.versions[x].n : x \in own}) + 1
           row == [org |-> o, product |-> p, status |-> "draft", n |-> n]
<1>1. v \in Versions /\ v \notin DOMAIN db.versions /\ p \in Products /\ db.products[p].org = o
  BY DrawnFresh DEF Inv, ProductsOK, PostCatalog, Owned
<1>2. WorkOK' /\ kept' = kept
  BY CalledOK DEF PostCatalog, Inv
<1>3. Row(row, VersionFields) /\ row.product = p /\ row.org = db.products[p].org /\ row.n = n /\ row.status = "draft"
  BY <1>1 DEF Row, VersionFields
<1>4. /\ \A x \in db.journeys : Row(x, JourneyFields) /\ x.version \in DOMAIN db.versions
      /\ \A x \in db.coverage : Row(x, CoverageFields) /\ x.version \in DOMAIN db.versions
      /\ \A x \in db.screens : Row(x, ScreenFields) /\ x.version \in DOMAIN db.versions
      /\ \A x \in db.moves : Row(x, MoveFields) /\ x.version \in DOMAIN db.versions
      /\ \A x \in db.plays : Row(x, PlayFields) /\ x.version \in DOMAIN db.versions
  BY RowsOfVersions
<1>5. Of(db.journeys, v) = {} /\ Of(db.coverage, v) = {} /\ Of(db.screens, v) = {} /\ Of(db.moves, v) = {} /\ Of(db.plays, v) = {}
  BY <1>1, <1>4 DEF Of
<1>6. active = Null \/ (active \in DOMAIN db.versions /\ db.versions[active].product = p /\ db.versions[active].status = "published")
  BY DEF Inv, ProductsOK, ProductOK
<1>7. p \in P!Mine(o, "products") /\ v \notin DOMAIN read.catalogs /\ read.products[p].active = active
  <2>1. read.catalogs = ViewedCatalogs /\ read.products = ViewedProducts
    BY Reads
  <2>2. p \in P!Mine(o, "products") /\ read.products[p].active = active
    BY <1>1, <2>1, ProductSeen DEF P!Mine
  <2>3. QED
    BY <1>1, <2>1, <2>2 DEF ViewedCatalogs
<1>8. P!OfProduct(read.catalogs, p) = own /\ \A x \in own : read.catalogs[x].n = db.versions[x].n
  BY Reads, ComparedIs DEF ViewedCatalogs, P!OfProduct, OfProduct
<1>9. P!Max({0} \cup {read.catalogs[x].n : x \in P!OfProduct(read.catalogs, p)}) + 1 = n
  <2>1. {0} \cup {read.catalogs[x].n : x \in P!OfProduct(read.catalogs, p)} = {0} \cup {db.versions[x].n : x \in own}
    BY <1>8
  <2>2. QED
    BY <2>1, SameMax
<1> HIDE DEF n, row
<1>10. /\ db'.versions = Put(db.versions, v, row) /\ db'.products = db.products /\ db'.roles = db.roles /\ db'.training = db.training
       /\ db'.jobs = db.jobs /\ db'.artifacts = db.artifacts /\ db'.sessions = db.sessions /\ db'.credentials = db.credentials
       /\ db'.grants = db.grants /\ db'.feedback = db.feedback /\ Row(db', Tables)
  <2>1. db' = [(IF active # Null /\ db.versions[active].status = "published" THEN Cloned(active, v) ELSE db) EXCEPT !.versions = Put(@, v, row)]
    BY DEF PostCatalog, Drafted, row, n
  <2>2. QED
    BY <2>1 DEF Cloned, Inv, Row, Tables
<1>11. DOMAIN db'.versions = DOMAIN db.versions \cup {v} /\ db'.versions[v] = row /\ \A u \in DOMAIN db.versions : db'.versions[u] = db.versions[u]
  BY <1>1, <1>10 DEF Put
<1> DEFINE fresh == [org |-> o, product |-> p, n |-> n, status |-> "draft",
                     journeys |-> {}, coverage |-> {}, screens |-> {}, moves |-> {}, plays |-> {}]
<1>12. CASE active = Null
  <2>1. db' = [db EXCEPT !.versions = Put(@, v, row)]
    BY <1>12 DEF PostCatalog, Drafted, row, n
  <2>2. db'.tasks = db.tasks /\ db'.journeys = db.journeys /\ db'.coverage = db.coverage /\ db'.types = db.types /\ db'.screens = db.screens
        /\ db'.moves = db.moves /\ db'.plays = db.plays
    BY <2>1 DEF Inv, Row, Tables
  <2>3. JourneysOK' /\ CoverageOK' /\ PartsOK'
    BY <1>11, <2>2, KeepJourneys, KeepCoverage, KeepParts DEF Inv
  <2>4. \A u \in DOMAIN db.versions : Compared(u)' = Compared(u)
    BY <1>11, <2>2, SameSnapshot
  <2>5. Inv' /\ read' = [read EXCEPT !.catalogs = Put(read.catalogs, v, Compared(v)')]
    BY <1>1, <1>2, <1>3, <1>10, <2>3, <2>4, DraftAdded DEF VersionFields
  <2>6. Compared(v)' = fresh
    <3>0. SeenScreens(v)' = SeenScreens(v)
      BY <2>2, SameScreens
    <3>1. Compared(v)' = [org |-> row.org, product |-> row.product, n |-> row.n, status |-> row.status,
                         journeys |-> Seen(db.journeys, v), coverage |-> Seen(db.coverage, v), screens |-> SeenScreens(v),
                         moves |-> Seen(db.moves, v), plays |-> Seen(db.plays, v)]
      BY <1>11, <2>2, <3>0, ComparedAfter
    <3>2. Seen(db.journeys, v) = {} /\ Seen(db.coverage, v) = {} /\ SeenScreens(v) = {} /\ Seen(db.moves, v) = {} /\ Seen(db.plays, v) = {}
      BY <1>5 DEF Seen, SeenOf, SeenScreens
    <3>3. QED
      BY <1>1, <1>3, <3>1, <3>2
  <2>7. active \notin own
    BY <1>12 DEF OfProduct, Inv, VersionsOK, Sensible
  <2>8. P!Saves("catalogs", v, fresh)
    BY <2>5, <2>6, SamePut DEF P!Saves
  <2>9. P!CreateDraft(o, p, v)
    BY <1>7, <1>8, <1>9, <2>7, <2>8 DEF P!CreateDraft
  <2>10. QED
    BY <1>1, <2>5, <2>9, ByCreateDraft DEF Answered
<1>13. CASE active # Null
  <2>1. active \in DOMAIN db.versions /\ active # v /\ active \in own /\ db.versions[active].product = p /\ db.versions[active].org = o
    BY <1>1, <1>6, <1>13 DEF OfProduct, Inv, VersionsOK, VersionOK
  <2> DEFINE approved == {x \in Copies(db.plays, active, v) : x.approved}
  <2>2. db' = [Cloned(active, v) EXCEPT !.versions = Put(@, v, row)]
    BY <1>6, <1>13 DEF PostCatalog, Drafted, row, n
  <2>17. TypesCopied(active, v)
    BY <2>2 DEF Cloned, TypesCopied, Inv, Row, Tables
  <2>3. db'.tasks = db.tasks \cup Copies(db.tasks, active, v) /\ db'.journeys = db.journeys \cup Copies(db.journeys, active, v)
        /\ db'.coverage = db.coverage \cup Copies(db.coverage, active, v) /\ db'.screens = db.screens \cup Copies(db.screens, active, v)
        /\ db'.moves = db.moves \cup Copies(db.moves, active, v) /\ db'.plays = db.plays \cup approved
    BY <2>2 DEF Cloned, Inv, Row, Tables
  <2>4. JourneysOK' /\ CoverageOK'
    BY <1>1, <1>11, <2>1, <2>3, CopiesOK
  <2>5. /\ "version" \in JourneyFields /\ "version" \in CoverageFields /\ "version" \in ScreenFields /\ "version" \in MoveFields
        /\ "version" \in PlayFields /\ "approved" \in PlayFields \ {"version"}
    BY DEF JourneyFields, CoverageFields, ScreenFields, MoveFields, PlayFields
  <2>6. /\ Seen(db'.journeys, v) = Seen(db.journeys, active) /\ Seen(db'.coverage, v) = Seen(db.coverage, active)
        /\ SeenScreens(v)' = SeenScreens(active) /\ Seen(db'.moves, v) = Seen(db.moves, active)
        /\ \A u \in DOMAIN db.versions : /\ Of(db'.journeys, u) = Of(db.journeys, u) /\ Of(db'.coverage, u) = Of(db.coverage, u)
                                         /\ Of(db'.screens, u) = Of(db.screens, u) /\ Of(db'.moves, u) = Of(db.moves, u)
    <3>1. Seen(db'.journeys, v) = Seen(db.journeys, active) /\ \A u : u # v => Of(db'.journeys, u) = Of(db.journeys, u)
      <4>1. \A x \in db.journeys : Row(x, JourneyFields)
        BY <1>4
      <4>2. Copied(JourneyFields, db.journeys, active, v)
        BY <4>1, <1>5, <2>1, <2>5, CopiesAre
      <4>3. QED
        BY <2>3, <4>2 DEF Copied
    <3>2. Seen(db'.coverage, v) = Seen(db.coverage, active) /\ \A u : u # v => Of(db'.coverage, u) = Of(db.coverage, u)
      <4>1. \A x \in db.coverage : Row(x, CoverageFields)
        BY <1>4
      <4>2. Copied(CoverageFields, db.coverage, active, v)
        BY <4>1, <1>5, <2>1, <2>5, CopiesAre
      <4>3. QED
        BY <2>3, <4>2 DEF Copied
    <3>3. SeenScreens(v)' = SeenScreens(active) /\ \A u : u # v => Of(db'.screens, u) = Of(db.screens, u)
      <4>1. \A x \in db.screens : Row(x, ScreenFields)
        BY <1>4
      <4>2. Copied(ScreenFields, db.screens, active, v)
        BY <4>1, <1>5, <2>1, <2>5, CopiesAre
      <4>3. SeenScreens(v)' = SeenScreens(active)
        BY <1>1, <1>5, <2>1, <2>3, <2>17, CopiedTypes
      <4>4. QED
        BY <2>3, <4>2, <4>3 DEF Copied
    <3>4. Seen(db'.moves, v) = Seen(db.moves, active) /\ \A u : u # v => Of(db'.moves, u) = Of(db.moves, u)
      <4>1. \A x \in db.moves : Row(x, MoveFields)
        BY <1>4
      <4>2. Copied(MoveFields, db.moves, active, v)
        BY <4>1, <1>5, <2>1, <2>5, CopiesAre
      <4>3. QED
        BY <2>3, <4>2 DEF Copied
    <3>5. QED
      BY <1>1, <3>1, <3>2, <3>3, <3>4
  <2>7. /\ Copies(db.plays, active, v) = {CopyOf(x, v) : x \in Of(db.plays, active)}
        /\ \A x \in Copies(db.plays, active, v) : Row(x, PlayFields) /\ x.version = v
    <3>1. \A x \in db.plays : Row(x, PlayFields)
      BY <1>4
    <3>2. Copied(PlayFields, db.plays, active, v)
      BY <3>1, <1>5, <2>1, <2>5, CopiesAre
    <3>3. QED
      BY <3>2 DEF Copied
  <2>8. Seen(db'.plays, v) = {x \in Seen(db.plays, active) : x.approved} /\ \A u \in DOMAIN db.versions : Of(db'.plays, u) = Of(db.plays, u)
    <3>1. Of(db'.plays, v) = approved
      BY <1>5, <2>3, <2>7 DEF Of
    <3>2. ASSUME NEW x \in Of(db.plays, active)
          PROVE  W(CopyOf(x, v)) = W(x) /\ CopyOf(x, v).approved = x.approved /\ W(x).approved = x.approved
      <4>1. Row(x, PlayFields)
        BY <1>4 DEF Of
      <4>2. W(CopyOf(x, v)) = W(x) /\ \A g \in PlayFields \ {"version"} : CopyOf(x, v)[g] = x[g]
        BY <2>5, <4>1, CopyIs
      <4>3. \A g \in PlayFields \ {"version"} : W(x)[g] = x[g]
        BY <4>1, WithoutVersion
      <4>4. QED
        BY <2>5, <4>2, <4>3
    <3>3. SeenOf(approved) = {x \in SeenOf(Of(db.plays, active)) : x.approved}
      BY <2>7, <3>2 DEF SeenOf
    <3>4. \A u \in DOMAIN db.versions : Of(db'.plays, u) = Of(db.plays, u)
      BY <1>1, <2>3, <2>7 DEF Of
    <3>5. QED
      BY <3>1, <3>3, <3>4 DEF Seen
  <2>9. PartsOK'
    <3>1. /\ \A x \in Copies(db.screens, active, v) : Row(x, ScreenFields) /\ x.version = v
          /\ \A x \in Copies(db.moves, active, v) : Row(x, MoveFields) /\ x.version = v
      <4>1. (\A x \in db.screens : Row(x, ScreenFields)) /\ (\A x \in db.moves : Row(x, MoveFields))
        BY <1>4
      <4>2. Copied(ScreenFields, db.screens, active, v)
        BY <4>1, <1>5, <2>1, <2>5, CopiesAre
      <4>3. Copied(MoveFields, db.moves, active, v)
        BY <4>1, <1>5, <2>1, <2>5, CopiesAre
      <4>4. QED
        BY <4>2, <4>3 DEF Copied
    <3>2. v \in DOMAIN db'.versions /\ DOMAIN db.versions \subseteq DOMAIN db'.versions
      BY <1>11
    <3>3. \A x \in db'.screens : Row(x, ScreenFields) /\ x.version \in DOMAIN db'.versions
      BY <1>4, <2>3, <3>1, <3>2
    <3>4. \A x \in db'.moves : Row(x, MoveFields) /\ x.version \in DOMAIN db'.versions
      BY <1>4, <2>3, <3>1, <3>2
    <3>5. \A x \in db'.plays : Row(x, PlayFields) /\ x.version \in DOMAIN db'.versions
      BY <1>4, <2>3, <2>7, <3>2
    <3>6. TypesOK'
      BY <1>1, <1>5, <2>1, <2>3, <2>17, CopiedTypes
    <3>7. QED
      BY <3>3, <3>4, <3>5, <3>6 DEF PartsOK, Versioned, ScreenFields, MoveFields, PlayFields
  <2>10. \A u \in DOMAIN db.versions : Compared(u)' = Compared(u)
    <3>1. \A u \in DOMAIN db.versions : \A s \in Of(db.screens, u) : db'.types[<<s.version, s.screen>>] = db.types[<<s.version, s.screen>>]
      BY <1>1, <1>5, <2>1, <2>3, <2>17, CopiedTypes
    <3>2. QED
      BY <1>11, <2>6, <2>8, <3>1, SameSnapshot
  <2>11. Inv' /\ read' = [read EXCEPT !.catalogs = Put(read.catalogs, v, Compared(v)')]
    BY <1>1, <1>2, <1>3, <1>10, <2>4, <2>9, <2>10, DraftAdded DEF VersionFields
  <2> DEFINE copied == [Compared(active) EXCEPT !.n = n, !.status = "draft", !.plays = {x \in @ : x.approved}]
  <2>12. Compared(v)' = copied
    <3>1. Compared(v)' = [org |-> o, product |-> p, n |-> n, status |-> "draft",
                         journeys |-> Seen(db.journeys, active), coverage |-> Seen(db.coverage, active), screens |-> SeenScreens(active),
                         moves |-> Seen(db.moves, active), plays |-> {x \in Seen(db.plays, active) : x.approved}]
      BY <1>1, <1>3, <1>11, <2>6, <2>8, ComparedAfter
    <3>2. Compared(active) = [org |-> o, product |-> p, n |-> db.versions[active].n, status |-> db.versions[active].status,
                         journeys |-> Seen(db.journeys, active), coverage |-> Seen(db.coverage, active), screens |-> SeenScreens(active),
                         moves |-> Seen(db.moves, active), plays |-> Seen(db.plays, active)]
      BY <2>1, ComparedIs
    <3> DEFINE x == Compared(active)
               y == Compared(v)'
    <3>3. Row(x, SnapshotFields) /\ Row(y, SnapshotFields)
      BY <3>1, <3>2 DEF Row, SnapshotFields
    <3>4. \A g \in SnapshotFields \ {"n", "status", "plays"} : y[g] = x[g]
      BY <3>1, <3>2 DEF SnapshotFields
    <3>5. y.n = n /\ y.status = "draft" /\ y.plays = {t \in x.plays : t.approved}
      BY <3>1, <3>2
    <3>6. "n" \in SnapshotFields /\ "status" \in SnapshotFields /\ "plays" \in SnapshotFields
      BY DEF SnapshotFields
    <3> HIDE DEF x, y
    <3>7. y = [x EXCEPT !["n"] = y["n"], !["status"] = y["status"], !["plays"] = y["plays"]]
      BY <3>3, <3>4, <3>6, ThreeFields
    <3>8. y = [x EXCEPT !.n = n, !.status = "draft", !.plays = {t \in @ : t.approved}]
      BY <3>5, <3>7
    <3>9. QED
      BY <3>8 DEF x, y
  <2>13. read.catalogs[active] = Compared(active)
    BY <2>1, CatalogNow
  <2> DEFINE draft == [read.catalogs[active] EXCEPT !.n = n, !.status = "draft", !.plays = {x \in @ : x.approved}]
  <2>14. P!Saves("catalogs", v, draft)
    BY <2>11, <2>12, <2>13, SamePut DEF P!Saves
  <2>15. P!CreateDraft(o, p, v)
    BY <1>7, <1>8, <1>9, <2>1, <2>14 DEF P!CreateDraft
  <2>16. QED
    BY <1>1, <2>11, <2>15, ByCreateDraft DEF Answered
<1>14. QED
  BY <1>12, <1>13

-----------------------------------------------------------------------------
(* A product goes, with all that is under it. *)

\* What the store in memory keeps of what goes makes up for what went.
LEMMA Absorbed ==
  ASSUME NEW f, NEW g, NEW K, DOMAIN g \cap K \subseteq DOMAIN f
  PROVE  Over(Drop(f, K), Over(Restrict(g, DOMAIN g \ K), Restrict(f, DOMAIN f \cap K))) = Over(f, g)
<1> DEFINE a == Drop(f, K)
           b == Restrict(g, DOMAIN g \ K)
           c == Restrict(f, DOMAIN f \cap K)
<1>1. DOMAIN a = DOMAIN f \ K /\ \A x \in DOMAIN a : a[x] = f[x]
  BY DEF Drop, Restrict
<1>2. DOMAIN b = DOMAIN g \ K /\ \A x \in DOMAIN b : b[x] = g[x]
  BY DEF Restrict
<1>3. DOMAIN c = DOMAIN f \cap K /\ \A x \in DOMAIN c : c[x] = f[x]
  BY DEF Restrict
<1> HIDE DEF a, b, c
<1>4. DOMAIN a \cup (DOMAIN b \cup DOMAIN c) = DOMAIN f \cup DOMAIN g
  BY <1>1, <1>2, <1>3
<1>5. Over(a, Over(b, c)) = Over(f, g)
  BY <1>1, <1>2, <1>3, <1>4 DEF Over
<1>6. QED
  BY <1>5 DEF a, b, c

Others(rows, vs) == {x \in rows : x.version \notin vs}
\* A product goes, and what the store in memory keeps of it is kept.
LEMMA DeleteProductStep ==
  ASSUME Inv, read' = Read', NEW o \in Orgs, NEW p \in DOMAIN db.products, DeleteProduct(o, p) PROVE Answered
<1> DEFINE vs == OfProduct(db.versions, p)
           js == OfProduct(db.jobs, p)
           ss == OfProduct(db.sessions, p)
           gs == OfProduct(db.grants, p)
           ts == OfProduct(db.training, p)
           With(more, f, K) == Over(Restrict(more, DOMAIN more \ K), Restrict(f, DOMAIN f \cap K))
<1>1. db' = [db EXCEPT !.products = Drop(@, {p}), !.roles = {r \in @ : r.product # p}, !.versions = Drop(@, vs),
              !.types = Restrict(@, {k \in DOMAIN @ : k[1] \notin vs}), !.tasks = Others(@, vs), !.journeys = Others(@, vs), !.coverage = Others(@, vs), !.screens = Others(@, vs), !.moves = Others(@, vs),
              !.plays = Others(@, vs), !.training = Drop(@, OfProduct(@, p)), !.jobs = Drop(@, js), !.artifacts = Drop(@, js),
              !.sessions = Drop(@, OfProduct(@, p)), !.grants = Drop(@, OfProduct(@, p))]
  BY DEF DeleteProduct, Others
<1>2. kept' = [leases |-> With(kept.leases, Leases, js), artifacts |-> With(kept.artifacts, db.artifacts, js),
               grants |-> With(kept.grants, db.grants, gs), training |-> With(kept.training, db.training, ts),
               ids |-> kept.ids \cup {p} \cup vs \cup js \cup UNION {OfProduct(db[t], p) : t \in {"sessions", "grants", "training"}}]
  BY DEF DeleteProduct
<1>3. p \in Products /\ db.products[p].org = o /\ WorkOK'
  BY CalledOK DEF DeleteProduct, Owned, Inv, ProductsOK
<1> HIDE DEF vs, js, ss, gs, ts, With
<1>4. /\ db'.products = Drop(db.products, {p}) /\ db'.roles = {r \in db.roles : r.product # p} /\ db'.versions = Drop(db.versions, vs)
      /\ db'.types = Restrict(db.types, {k \in DOMAIN db.types : k[1] \notin vs})
      /\ db'.tasks = Others(db.tasks, vs) /\ db'.journeys = Others(db.journeys, vs) /\ db'.coverage = Others(db.coverage, vs)
      /\ db'.screens = Others(db.screens, vs) /\ db'.moves = Others(db.moves, vs) /\ db'.plays = Others(db.plays, vs)
      /\ db'.training = Drop(db.training, ts) /\ db'.jobs = Drop(db.jobs, js) /\ db'.artifacts = Drop(db.artifacts, js)
      /\ db'.sessions = Drop(db.sessions, ss) /\ db'.grants = Drop(db.grants, gs)
      /\ db'.credentials = db.credentials /\ db'.feedback = db.feedback /\ Row(db', Tables)
  <2>1. OfProduct(db.training, p) = ts /\ OfProduct(db.sessions, p) = ss /\ OfProduct(db.grants, p) = gs
    BY DEF ts, ss, gs
  <2>2. Row(db, Tables)
    BY DEF Inv
  <2>3. QED
    BY <1>1, <2>1, <2>2 DEF Row, Tables
<1>5. /\ DOMAIN Drop(db.products, {p}) = DOMAIN db.products \ {p} /\ \A q \in DOMAIN db.products \ {p} : Drop(db.products, {p})[q] = db.products[q]
      /\ DOMAIN Drop(db.versions, vs) = DOMAIN db.versions \ vs /\ \A v \in DOMAIN db.versions \ vs : Drop(db.versions, vs)[v] = db.versions[v]
      /\ DOMAIN Drop(db.jobs, js) = DOMAIN db.jobs \ js /\ \A j \in DOMAIN db.jobs \ js : Drop(db.jobs, js)[j] = db.jobs[j]
      /\ DOMAIN Drop(db.artifacts, js) = DOMAIN db.artifacts \ js /\ \A j \in DOMAIN db.artifacts \ js : Drop(db.artifacts, js)[j] = db.artifacts[j]
      /\ DOMAIN Drop(db.grants, gs) = DOMAIN db.grants \ gs /\ \A g \in DOMAIN db.grants \ gs : Drop(db.grants, gs)[g] = db.grants[g]
  BY DEF Drop, Restrict
<1>6. ProductsOK' /\ RolesOK' /\ VersionsOK'
  <2>1. ASSUME NEW q \in DOMAIN db.products \ {p}
        PROVE  /\ Row(db.products[q], {"org", "key", "active"}) /\ db.products[q].org \in Orgs
               /\ \/ db.products[q].active = Null
                  \/ /\ db.products[q].active \in DOMAIN db.versions \ vs
                     /\ db.versions[db.products[q].active].product = q /\ db.versions[db.products[q].active].status = "published"
    BY DEF Inv, ProductsOK, ProductOK, vs, OfProduct
  <2> DEFINE products == db'.products
             versions == db'.versions
  <2>0. /\ DOMAIN products = DOMAIN db.products \ {p} /\ \A q \in DOMAIN db.products \ {p} : products[q] = db.products[q]
        /\ DOMAIN versions = DOMAIN db.versions \ vs /\ \A v \in DOMAIN db.versions \ vs : versions[v] = db.versions[v]
    BY <1>4, <1>5
  <2>2. ProductsOK'
    <3>1. ASSUME NEW q \in DOMAIN products
          PROVE  /\ Row(products[q], {"org", "key", "active"}) /\ products[q].org \in Orgs
                 /\ \/ products[q].active = Null
                    \/ /\ products[q].active \in DOMAIN versions
                       /\ versions[products[q].active].product = q /\ versions[products[q].active].status = "published"
      <4> HIDE DEF products, versions
      <4>1. QED
        BY <2>0, <2>1
    <3>2. DOMAIN products \subseteq Products
      BY <2>0 DEF Inv, ProductsOK
    <3>3. QED
      BY <3>1, <3>2 DEF ProductsOK, ProductOK
  <2>3. RolesOK'
    BY <1>4, <1>5 DEF Inv, RolesOK
  <2>4. \A v \in DOMAIN db.versions \ vs : db.versions[v].product \in DOMAIN db.products \ {p}
    BY DEF vs, OfProduct, Inv, VersionsOK, VersionOK
  <2>5. VersionsOK'
    <3>1. ASSUME NEW v \in DOMAIN versions
          PROVE  Row(versions[v], {"org", "product", "n", "status"}) /\ versions[v].product \in DOMAIN products
                 /\ versions[v].org = products[versions[v].product].org
      <4>1. v \in DOMAIN db.versions \ vs /\ versions[v] = db.versions[v]
        BY <2>0
      <4>2. products[db.versions[v].product] = db.products[db.versions[v].product] /\ db.versions[v].product \in DOMAIN products
        BY <2>0, <2>4, <4>1
      <4>3. Row(db.versions[v], {"org", "product", "n", "status"}) /\ db.versions[v].org = db.products[db.versions[v].product].org
        BY <4>1 DEF Inv, VersionsOK, VersionOK
      <4> HIDE DEF products, versions
      <4>4. QED
        BY <4>1, <4>2, <4>3
    <3>2. DOMAIN versions \subseteq Versions
      BY <2>0 DEF Inv, VersionsOK
    <3>3. QED
      BY <3>1, <3>2 DEF VersionsOK, VersionOK
  <2>6. QED
    BY <2>2, <2>3, <2>5
<1>7. JourneysOK'
  BY <1>4, <1>5 DEF Inv, JourneysOK, JourneyOK, Id, Others
<1>8. CoverageOK'
  <2>1. ASSUME NEW c \in db'.coverage
        PROVE  /\ Row(c, {"version", "role", "key"}) /\ [version |-> c.version, key |-> c.key] \in db'.tasks
               /\ \E j \in db'.journeys : CoveredBy(c, j)
    <3>1. c \in db.coverage /\ c.version \notin vs
      BY <1>4 DEF Others
    <3>2. [version |-> c.version, key |-> c.key] \in db'.tasks
      BY <1>4, <3>1 DEF Inv, CoverageOK, Others
    <3>3. PICK j \in db.journeys : CoveredBy(c, j)
      BY <3>1 DEF Inv, CoverageOK
    <3>4. j \in db'.journeys
      BY <1>4, <3>1, <3>3 DEF Others, CoveredBy
    <3>5. QED
      BY <3>1, <3>2, <3>3, <3>4 DEF Inv, CoverageOK
  <2>2. QED
    BY <2>1 DEF CoverageOK, CoveredBy
<1>9. PartsOK'
  <2>1. DOMAIN db'.types = {k \in DOMAIN db.types : k[1] \notin vs} /\ \A k \in DOMAIN db'.types : db'.types[k] = db.types[k]
    BY <1>4 DEF Restrict
  <2>2. \A k \in DOMAIN db'.types : k = <<k[1], k[2]>> /\ Worded(k)'
    BY <2>1 DEF Inv, PartsOK, TypesOK, Worded
  <2>3. \A s \in db'.screens : <<s.version, s.screen>> \in DOMAIN db'.types
    BY <1>4, <2>1 DEF Inv, PartsOK, TypesOK, Others
  <2>4. TypesOK'
    BY <2>2, <2>3 DEF TypesOK, Worded
  <2>5. QED
    BY <1>4, <1>5, <2>4 DEF Inv, PartsOK, Versioned, Others
<1>10. JobsOK' /\ ArtifactsOK'
  BY <1>4, <1>5 DEF Inv, JobsOK, JobOK, ArtifactsOK
<1>11. SessionsOK' /\ GrantsOK'
  <2>1. Drop(db.sessions, ss) = [s \in DOMAIN db.sessions \ ss |-> db.sessions[s]]
    BY DEF Drop, Restrict
  <2>2. SessionsOK'
    BY <1>4, <2>1 DEF Inv, SessionsOK, SessionOK
  <2>3. GrantsOK'
    BY <1>4, <1>5 DEF Inv, GrantsOK
  <2>4. QED
    BY <2>2, <2>3
<1>12. Row(kept', {"leases", "artifacts", "grants", "training", "ids"})
  BY <1>2 DEF Row
<1>13. KeptOK'
  <2>1. DOMAIN kept'.leases \subseteq DOMAIN kept.leases \cup js /\ DOMAIN kept'.artifacts \subseteq DOMAIN kept.artifacts \cup js
    BY <1>2 DEF With, Over, Restrict
  <2>2. kept.ids \cup js \subseteq kept'.ids
    BY <1>2
  <2>3. QED
    BY <1>4, <1>5, <2>1, <2>2 DEF Inv, KeptOK
<1>14. Inv'
  BY <1>3, <1>4, <1>6, <1>7, <1>8, <1>9, <1>10, <1>11, <1>12, <1>13 DEF Inv
\* What is read of the rest stays.
<1>15. ViewedLeases' = ViewedLeases
  <2>1. Leases' = Drop(Leases, js)
    BY <1>4, <1>5 DEF Leases, Drop, Restrict
  <2>2. DOMAIN kept.leases \cap js = {}
    BY DEF Inv, KeptOK, js, OfProduct
  <2>3. QED
    BY <1>2, <2>1, <2>2, Absorbed DEF ViewedLeases, With
<1>16. ViewedArtifacts' = ViewedArtifacts
  <2>1. DOMAIN kept.artifacts \cap js = {}
    BY DEF Inv, KeptOK, js, OfProduct
  <2>2. QED
    BY <1>2, <1>4, <2>1, Absorbed DEF ViewedArtifacts, With
<1>17. ViewedGrants' = ViewedGrants /\ ViewedTraining' = ViewedTraining
  <2>1. gs \subseteq DOMAIN db.grants /\ ts \subseteq DOMAIN db.training
    BY DEF gs, ts, OfProduct
  <2>2. QED
    BY <1>2, <1>4, <2>1, Absorbed DEF ViewedGrants, ViewedTraining, With
<1>18. ViewedProducts' = Drop(ViewedProducts, {p})
  <2>1. \A q \in DOMAIN db.products \ {p} : RolesOf(q)' = RolesOf(q)
    BY <1>4 DEF RolesOf
  <2> DEFINE Aggregate(q) == [org |-> db.products[q].org, key |-> db.products[q].key, active |-> db.products[q].active, roles |-> RoleTable(RolesOf(q))]
  <2>2. ViewedProducts = [q \in DOMAIN db.products |-> Aggregate(q)]
    BY ProductSeen
  <2>3. ViewedProducts' = [q \in DOMAIN db.products \ {p} |-> Aggregate(q)]
    <3> DEFINE After(q) == [org |-> db'.products[q].org, key |-> db'.products[q].key, active |-> db'.products[q].active, roles |-> RoleTable(RolesOf(q)')]
    <3>1. ViewedProducts' = [q \in DOMAIN db'.products |-> After(q)]
      BY ProductSeenAfter
    <3>2. DOMAIN db'.products = DOMAIN db.products \ {p} /\ \A q \in DOMAIN db.products \ {p} : db'.products[q] = db.products[q]
      BY <1>4, <1>5
    <3>3. \A q \in DOMAIN db.products \ {p} : After(q) = Aggregate(q)
      BY <2>1, <3>2
    <3> HIDE DEF After, Aggregate
    <3>4. QED
      BY <3>1, <3>2, <3>3
  <2> HIDE DEF Aggregate
  <2>4. QED
    BY <2>2, <2>3 DEF Drop, Restrict
<1>19. ViewedCatalogs' = Drop(ViewedCatalogs, vs)
  <2>1. ASSUME NEW v \in DOMAIN db.versions \ vs PROVE Compared(v)' = Compared(v)
    <3>1. /\ Of(db'.journeys, v) = Of(db.journeys, v) /\ Of(db'.coverage, v) = Of(db.coverage, v) /\ Of(db'.screens, v) = Of(db.screens, v)
          /\ Of(db'.moves, v) = Of(db.moves, v) /\ Of(db'.plays, v) = Of(db.plays, v)
      BY <1>4 DEF Of, Others
    <3>2. db'.versions[v] = db.versions[v]
      BY <1>4, <1>5
    <3>3. \A s \in Of(db.screens, v) : db'.types[<<s.version, s.screen>>] = db.types[<<s.version, s.screen>>]
      BY <1>4 DEF Of, Restrict, Inv, PartsOK, TypesOK
    <3>4. QED
      BY <3>1, <3>2, <3>3, SameSnapshot
  <2>2. ViewedCatalogs' = [v \in DOMAIN db.versions \ vs |-> Compared(v)']
    BY <1>4, <1>5 DEF ViewedCatalogs
  <2>3. QED
    BY <2>1, <2>2 DEF ViewedCatalogs, Drop, Restrict
<1>20. ViewedJobs' = Drop(ViewedJobs, js)
  BY <1>4, <1>5 DEF ViewedJobs, Drop, Restrict
<1>21. /\ P!OfProduct(read.catalogs, p) = vs /\ P!OfProduct(read.sessions, p) = ss /\ P!OfProduct(read.jobs, p) = js
  <2>1. P!OfProduct(read.catalogs, p) = vs
    BY Reads, ComparedIs DEF ViewedCatalogs, P!OfProduct, OfProduct, vs
  <2>2. P!OfProduct(read.sessions, p) = ss
    BY Reads DEF P!OfProduct, OfProduct, ss
  <2>3. \A j \in DOMAIN db.jobs : read.jobs[j].product = db.jobs[j].product
    <3>1. \A x : JobSeen(x).product = x.product
      BY DEF JobSeen
    <3>2. QED
      BY <3>1, JobsSeen
  <2>4. P!OfProduct(read.jobs, p) = js
    BY <2>3, JobsSeen DEF P!OfProduct, OfProduct, js
  <2>5. QED
    BY <2>1, <2>2, <2>4
<1>22. P!RemoveProduct(o, p)
  <2>1. p \in P!Mine(o, "products")
    BY <1>3, Reads, ProductSeen DEF P!Mine
  <2>2. read' = [read EXCEPT !.products = Drop(ViewedProducts, {p}), !.catalogs = Drop(ViewedCatalogs, vs),
                             !.sessions = Drop(db.sessions, ss), !.jobs = Drop(ViewedJobs, js)]
    <3> DEFINE written == [read EXCEPT !.products = Drop(ViewedProducts, {p}), !.catalogs = Drop(ViewedCatalogs, vs),
                                       !.sessions = Drop(db.sessions, ss), !.jobs = Drop(ViewedJobs, js)]
    <3>1. Row(read, ReadFields) /\ Row(read', ReadFields)
      BY ReadRow
    <3>2. Row(written, ReadFields)
      BY <3>1 DEF Row
    <3>3. \A h \in ReadFields \ {"products", "catalogs", "sessions", "jobs"} : written[h] = read[h]
      BY <3>1 DEF Row
    <3>4. /\ written.products = Drop(ViewedProducts, {p}) /\ written.catalogs = Drop(ViewedCatalogs, vs)
          /\ written.sessions = Drop(db.sessions, ss) /\ written.jobs = Drop(ViewedJobs, js)
      BY <3>1 DEF Row, ReadFields
    <3>5. /\ read'.products = Drop(ViewedProducts, {p}) /\ read'.catalogs = Drop(ViewedCatalogs, vs)
          /\ read'.sessions = Drop(db.sessions, ss) /\ read'.jobs = Drop(ViewedJobs, js)
      BY <1>4, <1>18, <1>19, <1>20, ReadAfter
    <3>6. \A h \in ReadFields \ {"products", "catalogs", "sessions", "jobs"} : read'[h] = read[h]
      BY <1>4, <1>15, <1>16, <1>17, Reads, ReadAfter DEF ReadFields
    <3> HIDE DEF written
    <3>7. \A h \in ReadFields : read'[h] = written[h]
      BY <3>3, <3>4, <3>5, <3>6
    <3>8. read' = written
      BY <3>1, <3>2, <3>7 DEF Row
    <3>9. QED
      BY <3>8 DEF written
  <2>3. read' = [read EXCEPT !.products = P!Drop(@, {p}), !.catalogs = P!Drop(@, P!OfProduct(@, p)),
                             !.sessions = P!Drop(@, P!OfProduct(@, p)), !.jobs = P!Drop(@, P!OfProduct(@, p))]
    BY <1>21, <2>2, Reads, SameDrop
  <2>4. QED
    BY <2>1, <2>3 DEF P!RemoveProduct
<1>23. QED
  BY <1>3, <1>14, <1>22, ByRemoveProduct DEF Answered

-----------------------------------------------------------------------------
(* The map of a role replaces that role's part of a version. *)

\* The maximum of one number.
LEMMA MaxOfOne == ASSUME NEW n \in Nat PROVE Max({n}) = n
BY DEF Max
Replacing(rows, v, r, more) == (rows \ OfRole(rows, v, r)) \cup more
\* Replacing a role's rows replaces what is seen of that role alone.
LEMMA RoleReplaced ==
  ASSUME NEW F, "version" \in F, "role" \in F \ {"version"}, NEW rows, \A x \in rows : Row(x, F), NEW v, NEW r, NEW more, \A x \in more : x.version = v
  PROVE  Seen(Replacing(rows, v, r, more), v) = P!OfOthers(Seen(rows, v), r) \cup SeenOf(more)
<1> DEFINE after == Replacing(rows, v, r, more)
<1>1. Of(after, v) = Except(Of(rows, v), "role", r) \cup more
  BY DEF Of, OfRole, Except, Replacing
<1>2. \A x \in Of(rows, v) : Row(x, F)
  BY DEF Of
<1>3. SeenOf(Except(Of(rows, v), "role", r)) = Except(SeenOf(Of(rows, v)), "role", r)
  BY <1>2, SeenSplit
<1>4. Except(SeenOf(Of(rows, v)), "role", r) = P!OfOthers(Seen(rows, v), r)
  BY DEF Except, P!OfOthers, Seen
<1>5. Seen(after, v) = SeenOf(Except(Of(rows, v), "role", r)) \cup SeenOf(more)
  BY <1>1 DEF Seen, SeenOf
<1>6. QED
  BY <1>3, <1>4, <1>5
\* It leaves the other versions alone.
LEMMA OthersStay ==
  ASSUME NEW rows, NEW v, NEW r, NEW more, \A x \in more : x.version = v, NEW u, u # v
  PROVE  Of(Replacing(rows, v, r, more), u) = Of(rows, u)
BY DEF Of, OfRole, Replacing

\* A journey mapped anew is the journey the store would make of it.
LEMMA JourneyMapped ==
  ASSUME Inv, NEW v, NEW r, NEW k, NEW text
  PROVE  /\ Row(JourneyRow(v, r, k, text), JourneyFields) /\ JourneyRow(v, r, k, text).version = v /\ JourneyRow(v, r, k, text).key = k
         /\ JourneyRow(v, r, k, text).role = r /\ JourneyRow(v, r, k, text).rev \in Nat
         /\ W(JourneyRow(v, r, k, text)) = P!Mapped(Compared(v), r, k, text)
<1> DEFINE before == {j \in OfRole(db.journeys, v, r) : j.key = k}
           b == CHOOSE j \in before : TRUE
           current == before # {} /\ b.approval = "approved" /\ b.approved = text
           rev == IF before = {} THEN 1 ELSE IF b.text = text THEN b.rev ELSE b.rev + 1
           approval == IF current THEN "approved" ELSE "pending"
           approved == IF current THEN text ELSE Null
           row == JourneyRow(v, r, k, text)
           was == {j \in Compared(v).journeys : j.role = r /\ j.key = k}
           still == \E j \in was : j.approval = "approved" /\ j.approved = text
           seenRev == IF was = {} THEN 1 ELSE Max({j.rev + (IF j.text = text THEN 0 ELSE 1) : j \in was})
<1>1. row = [version |-> v, key |-> k, role |-> r, text |-> text, rev |-> rev, approval |-> approval, approved |-> approved]
  BY DEF JourneyRow
<1>2. Row(row, JourneyFields) /\ row.version = v /\ row.key = k /\ row.role = r
  BY <1>1 DEF Row, JourneyFields
<1>3. before = {} \/ before = {b}
  <2>1. \A x, y \in before : x = y
    BY DEF OfRole, Of, Inv, JourneysOK, Id
  <2>2. QED
    BY <2>1
<1>4. b \in before => b \in db.journeys /\ b.version = v /\ b.role = r /\ b.key = k /\ b.rev \in Nat /\ Row(b, JourneyFields)
  BY DEF OfRole, Of, Inv, JourneysOK, JourneyOK
<1>5. row.rev \in Nat
  BY <1>1, <1>3, <1>4
<1>6. ASSUME NEW x \in Of(db.journeys, v) PROVE \A g \in JourneyFields \ {"version"} : W(x)[g] = x[g]
  <2>1. Row(x, JourneyFields)
    BY DEF Of, Inv, JourneysOK, JourneyOK
  <2>2. QED
    BY <2>1, WithoutVersion
<1>7. {"key", "role", "text", "rev", "approval", "approved"} = JourneyFields \ {"version"}
  BY DEF JourneyFields
<1>8. was = {W(x) : x \in before}
  <2>1. Compared(v).journeys = {W(x) : x \in Of(db.journeys, v)}
    BY ComparedIs DEF Seen, SeenOf
  <2>2. \A x \in Of(db.journeys, v) : W(x).role = x.role /\ W(x).key = x.key
    BY <1>6, <1>7
  <2>3. QED
    BY <2>1, <2>2 DEF OfRole
<1>9. seenRev = rev /\ (still <=> current)
  <2>1. CASE before = {}
    <3>1. was = {}
      BY <1>8, <2>1
    <3>2. QED
      BY <2>1, <3>1
  <2>2. CASE before # {}
    <3>1. before = {b} /\ b \in Of(db.journeys, v) /\ b.rev \in Nat
      BY <1>3, <1>4, <2>2 DEF Of
    <3>2. was = {W(b)}
      BY <1>8, <3>1
    <3>3. W(b).text = b.text /\ W(b).rev = b.rev /\ W(b).approval = b.approval /\ W(b).approved = b.approved
      BY <1>6, <1>7, <3>1
    <3>4. still <=> current
      BY <2>2, <3>2, <3>3
    <3>5. {j.rev + (IF j.text = text THEN 0 ELSE 1) : j \in was} = {rev}
      <4>1. W(b).rev + (IF W(b).text = text THEN 0 ELSE 1) = rev
        BY <2>2, <3>1, <3>3
      <4> HIDE DEF was, rev
      <4>2. {j.rev + (IF j.text = text THEN 0 ELSE 1) : j \in was} = {W(b).rev + (IF W(b).text = text THEN 0 ELSE 1)}
        BY <3>2
      <4>3. QED
        BY <4>1, <4>2
    <3>6. Max({rev}) = rev
      BY <1>1, <1>5, MaxOfOne
    <3>7. seenRev = rev
      BY <3>2, <3>5, <3>6
    <3>8. QED
      BY <3>4, <3>7
  <2>3. QED
    BY <2>1, <2>2
<1> DEFINE seen == [key |-> k, role |-> r, text |-> text, rev |-> rev, approval |-> approval, approved |-> approved]
<1>10. P!Mapped(Compared(v), r, k, text) = seen
  <2>1. P!Mapped(Compared(v), r, k, text)
        = [key |-> k, role |-> r, text |-> text,
           rev |-> IF was = {} THEN 1 ELSE P!Max({j.rev + (IF j.text = text THEN 0 ELSE 1) : j \in was}),
           approval |-> IF still THEN "approved" ELSE "pending", approved |-> IF still THEN text ELSE Null]
    BY DEF P!Mapped
  <2>2. P!Max({j.rev + (IF j.text = text THEN 0 ELSE 1) : j \in was}) = Max({j.rev + (IF j.text = text THEN 0 ELSE 1) : j \in was})
    BY SameMax
  <2> HIDE DEF was, still, current, rev
  <2>3. QED
    BY <1>9, <2>1, <2>2
<1>11. W(row) = seen
  <2> HIDE DEF row, rev, approval, approved
  <2>1. W(row) = [g \in JourneyFields \ {"version"} |-> row[g]]
    BY <1>2, WithoutVersion DEF Row
  <2>2. W(row) = [g \in {"key", "role", "text", "rev", "approval", "approved"} |-> row[g]]
    BY <1>7, <2>1
  <2>3. QED
    BY <1>1, <2>2
<1>12. QED
  BY <1>2, <1>5, <1>10, <1>11

\* A map that is delivered speaks of screens as some mapper does.
LEMMA MapIs ==
  ASSUME Sensible, NEW m \in Delivered
  PROVE  /\ \E m0 \in Maps : m.screens = m0.screens
         /\ Undisputed(m).journeys = m.journeys /\ Undisputed(m).moves = m.moves
         /\ Undisputed(m).screens = [s \in DOMAIN m.screens |-> Said(s, m.screens[s])]
<1>1. PICK m0 \in Maps, r \in RoleKeys : m = Keyed(m0, r)
  BY DEF Delivered
<1>2. Row(m0, {"job", "journeys", "screens", "moves"})
  BY DEF Sensible, Row
<1>3. m.screens = m0.screens /\ Row(m, {"job", "journeys", "screens", "moves"})
  BY <1>1, <1>2 DEF Keyed, Row
<1>4. QED
  BY <1>3 DEF Undisputed, Row
\* Where no two maps dispute a screen all maps that name it say the same.
LEMMA SaidAlike ==
  ASSUME NEW a \in Maps, NEW b \in Maps, NEW s \in DOMAIN a.screens \cap DOMAIN b.screens
  PROVE  Said(s, a.screens[s]) = Said(s, b.screens[s])
BY DEF Said, Disputed

TypesMapped(v, m) == db'.types = Over([k \in {v} \X DOMAIN m.screens |-> m.screens[k[2]]], db.types)
Surveyed(v, r, m) == {[version |-> v, role |-> r, screen |-> s] : s \in DOMAIN m.screens}
\* A map has its say on the types of its version, and what is seen of other
\* roles' screens stays.
LEMMA MappedTypes ==
  ASSUME Inv, Sensible, NEW v \in DOMAIN db.versions, NEW r, NEW m \in Delivered, TypesMapped(v, m),
         db'.screens = Replacing(db.screens, v, r, Surveyed(v, r, m))
  PROVE  /\ SeenScreens(v)' = P!OfOthers(SeenScreens(v), r) \cup {[role |-> r, screen |-> s, about |-> Said(s, m.screens[s])] : s \in DOMAIN m.screens}
         /\ TypesOK'
         /\ \A u \in DOMAIN db.versions \ {v} : \A s \in Of(db.screens, u) : db'.types[<<s.version, s.screen>>] = db.types[<<s.version, s.screen>>]
<1> DEFINE K == {v} \X DOMAIN m.screens
<1>1. /\ DOMAIN db'.types = K \cup DOMAIN db.types
      /\ \A k \in K : db'.types[k] = m.screens[k[2]]
      /\ \A k \in DOMAIN db.types \ K : db'.types[k] = db.types[k]
  BY DEF TypesMapped, Over
<1>2. PICK m0 \in Maps : m.screens = m0.screens
  BY MapIs
<1>3. \A x \in db.screens : <<x.version, x.screen>> \in DOMAIN db.types
  BY DEF Inv, PartsOK, TypesOK
<1>4. \A k \in DOMAIN db.types : k = <<k[1], k[2]>> /\ Worded(k)
  BY DEF Inv, PartsOK, TypesOK
<1>5. \A k \in K : k = <<v, k[2]>> /\ k[2] \in DOMAIN m.screens
  OBVIOUS
<1>6. \A s \in DOMAIN m.screens : <<v, s>> \in K
  OBVIOUS
<1> HIDE DEF K
<1>7. ASSUME NEW x \in Of(db.screens, v) PROVE Told(x)' = Told(x)
  <2>1. x.version = v /\ <<v, x.screen>> \in DOMAIN db.types
    BY <1>3 DEF Of
  <2>2. CASE <<v, x.screen>> \in K
    <3>1. x.screen \in DOMAIN m0.screens /\ db'.types[<<v, x.screen>>] = m0.screens[x.screen]
      BY <1>1, <1>2, <1>5, <2>2
    <3>2. PICK n \in Maps : x.screen \in DOMAIN n.screens /\ db.types[<<v, x.screen>>] = n.screens[x.screen]
      BY <1>4, <2>1 DEF Worded
    <3>3. Said(x.screen, m0.screens[x.screen]) = Said(x.screen, n.screens[x.screen])
      BY <3>1, <3>2, SaidAlike
    <3>4. QED
      BY <2>1, <3>1, <3>2, <3>3 DEF Told
  <2>3. CASE <<v, x.screen>> \notin K
    BY <1>1, <2>1, <2>3 DEF Told
  <2>4. QED
    BY <2>2, <2>3
<1>8. Of(db'.screens, v) = Except(Of(db.screens, v), "role", r) \cup Surveyed(v, r, m)
  BY DEF Replacing, Surveyed, Of, OfRole, Except
<1>9. {Told(x)' : x \in Surveyed(v, r, m)} = {[role |-> r, screen |-> s, about |-> Said(s, m.screens[s])] : s \in DOMAIN m.screens}
  <2>1. ASSUME NEW s \in DOMAIN m.screens
        PROVE  Told([version |-> v, role |-> r, screen |-> s])' = [role |-> r, screen |-> s, about |-> Said(s, m.screens[s])]
    <3>1. db'.types[<<v, s>>] = m.screens[s]
      BY <1>1, <1>6
    <3>2. QED
      BY <3>1 DEF Told
  <2> DEFINE at(s) == [version |-> v, role |-> r, screen |-> s]
             as(s) == [role |-> r, screen |-> s, about |-> Said(s, m.screens[s])]
  <2>2. Surveyed(v, r, m) = {at(s) : s \in DOMAIN m.screens} /\ \A s \in DOMAIN m.screens : Told(at(s))' = as(s)
    BY <2>1 DEF Surveyed
  <2> HIDE DEF at, as
  <2>3. {Told(x)' : x \in {at(s) : s \in DOMAIN m.screens}} = {as(s) : s \in DOMAIN m.screens}
    BY <2>2
  <2>4. QED
    BY <2>2, <2>3 DEF as
<1>10. {Told(x)' : x \in Except(Of(db.screens, v), "role", r)} = P!OfOthers(SeenScreens(v), r)
  <2>1. \A x : Told(x).role = x.role
    BY DEF Told
  <2>2. {Told(x) : x \in Except(Of(db.screens, v), "role", r)} = P!OfOthers(SeenScreens(v), r)
    BY <2>1 DEF Except, P!OfOthers, SeenScreens
  <2>3. QED
    BY <1>7, <2>2 DEF Except
<1>11. SeenScreens(v)' = P!OfOthers(SeenScreens(v), r) \cup {[role |-> r, screen |-> s, about |-> Said(s, m.screens[s])] : s \in DOMAIN m.screens}
  BY <1>8, <1>9, <1>10 DEF SeenScreens
<1>12. TypesOK'
  <2>1. ASSUME NEW k \in DOMAIN db'.types PROVE k = <<k[1], k[2]>> /\ Worded(k)'
    <3>1. CASE k \in K
      BY <1>1, <1>2, <1>5, <3>1 DEF Worded
    <3>2. CASE k \notin K
      BY <1>1, <1>4, <3>2 DEF Worded
    <3>3. QED
      BY <3>1, <3>2
  <2>2. \A s \in db'.screens : <<s.version, s.screen>> \in DOMAIN db'.types
    <3>1. \A s \in Surveyed(v, r, m) : s.version = v /\ s.screen \in DOMAIN m.screens
      BY DEF Surveyed
    <3>2. \A s \in db'.screens : s \in db.screens \/ s \in Surveyed(v, r, m)
      BY DEF Replacing
    <3>3. QED
      BY <1>1, <1>3, <1>6, <3>1, <3>2
  <2>3. QED
    BY <2>1, <2>2 DEF TypesOK, Worded
<1>13. \A u \in DOMAIN db.versions \ {v} : \A s \in Of(db.screens, u) : db'.types[<<s.version, s.screen>>] = db.types[<<s.version, s.screen>>]
  BY <1>1, <1>3, <1>5 DEF Of
<1>14. QED
  BY <1>11, <1>12, <1>13

\* A map replaces one role's part of one version, for both.
LEMMA Remaps ==
  ASSUME Inv, Sensible, read' = Read', WorkOK', kept' = kept, NEW v \in DOMAIN db.versions, Open(v), NEW r \in RoleKeys, NEW m \in Delivered,
         db' = Remapped(v, r, m)
  PROVE  Answered
<1> DEFINE o == db.versions[v].org
           keys == DOMAIN m.journeys
           others == db.journeys \ OfRole(db.journeys, v, r)
           mapped == {JourneyRow(v, r, k, m.journeys[k]) : k \in keys}
           left == {t \in db.tasks : t.version = v => \E i \in others : i.version = v /\ i.key = t.key}
           covered == {c \in db.coverage \ OfRole(db.coverage, v, r) : [version |-> c.version, key |-> c.key] \in left}
           named == {[version |-> v, key |-> k] : k \in keys}
           covers == {[version |-> v, role |-> r, key |-> k] : k \in keys}
           screens == Surveyed(v, r, m)
           moves == {[version |-> v, role |-> r, from |-> t[1], to |-> t[2]] : t \in m.moves}
           row == [db.versions[v] EXCEPT !.status = "review"]
<1>3. v \in Versions /\ o \in Orgs /\ read.catalogs[v] = Compared(v) /\ P!Editable(o, v) /\ keys \subseteq Keys
  BY CatalogNow DEF Keys
<1>4. db' = [db EXCEPT !.journeys = others \cup mapped, !.tasks = left \cup named, !.coverage = covered \cup covers,
                       !.types = Over([k \in {v} \X DOMAIN m.screens |-> m.screens[k[2]]], @), !.screens = (@ \ OfRole(@, v, r)) \cup screens, !.moves = (@ \ OfRole(@, v, r)) \cup moves, !.versions[v].status = "review"]
  BY DEF Remapped, Surveyed
<1> HIDE DEF o, keys
<1>5. /\ db'.journeys = others \cup mapped /\ db'.tasks = left \cup named /\ db'.coverage = covered \cup covers
      /\ TypesMapped(v, m)
      /\ db'.screens = (db.screens \ OfRole(db.screens, v, r)) \cup screens /\ db'.moves = (db.moves \ OfRole(db.moves, v, r)) \cup moves
      /\ db'.versions = [db.versions EXCEPT ![v] = row] /\ Row(db', Tables)
      /\ db'.products = db.products /\ db'.roles = db.roles /\ db'.plays = db.plays /\ db'.training = db.training /\ db'.jobs = db.jobs
      /\ db'.artifacts = db.artifacts /\ db'.sessions = db.sessions /\ db'.credentials = db.credentials /\ db'.grants = db.grants
      /\ db'.feedback = db.feedback
  <2> DEFINE said == [k \in {v} \X DOMAIN m.screens |-> m.screens[k[2]]]
  <2>0. /\ db' = [db EXCEPT !.journeys = others \cup mapped, !.tasks = left \cup named, !.coverage = covered \cup covers, !.types = Over(said, @),
                             !.screens = (@ \ OfRole(@, v, r)) \cup screens, !.moves = (@ \ OfRole(@, v, r)) \cup moves, !.versions[v].status = "review"]
        /\ (TypesMapped(v, m) <=> db'.types = Over(said, db.types))
    BY <1>4 DEF TypesMapped
  <2> HIDE DEF said, others, mapped, left, named, covered, covers, screens, moves
  <2>1. Row(db, Tables)
    BY DEF Inv
  <2> DEFINE typed == Over(said, db.types)
             surveyed == (db.screens \ OfRole(db.screens, v, r)) \cup screens
             moved == (db.moves \ OfRole(db.moves, v, r)) \cup moves
             walked == others \cup mapped
             shown == covered \cup covers
             wanted == left \cup named
  <2>2. db' = [db EXCEPT !.journeys = walked, !.tasks = wanted, !.coverage = shown, !.types = typed,
                         !.screens = surveyed, !.moves = moved, !.versions[v].status = "review"]
    BY <2>0
  <2> HIDE DEF typed, surveyed, moved, walked, shown, wanted
  <2>3. /\ db'.journeys = walked /\ db'.tasks = wanted /\ db'.coverage = shown /\ db'.types = typed
        /\ db'.screens = surveyed /\ db'.moves = moved /\ Row(db', Tables)
    BY <2>1, <2>2 DEF Row, Tables
  <2>4. /\ db'.versions = [db.versions EXCEPT ![v] = row]
        /\ db'.products = db.products /\ db'.roles = db.roles /\ db'.plays = db.plays /\ db'.training = db.training /\ db'.jobs = db.jobs
        /\ db'.artifacts = db.artifacts /\ db'.sessions = db.sessions /\ db'.credentials = db.credentials /\ db'.grants = db.grants
        /\ db'.feedback = db.feedback
    BY <2>1, <2>2 DEF Row, Tables
  <2>5. QED
    BY <2>0, <2>3, <2>4 DEF typed, surveyed, moved, walked, shown, wanted
<1>6. /\ \A x \in db.journeys : Row(x, JourneyFields) /\ x.version \in DOMAIN db.versions
      /\ \A x \in db.coverage : Row(x, CoverageFields) /\ x.version \in DOMAIN db.versions
      /\ \A x \in db.screens : Row(x, ScreenFields) /\ x.version \in DOMAIN db.versions
      /\ \A x \in db.moves : Row(x, MoveFields) /\ x.version \in DOMAIN db.versions
      /\ \A x \in db.plays : Row(x, PlayFields) /\ x.version \in DOMAIN db.versions
  BY RowsOfVersions
<1>7. /\ DOMAIN db'.versions = DOMAIN db.versions /\ db'.versions[v] = row /\ (\A u \in DOMAIN db.versions \ {v} : db'.versions[u] = db.versions[u])
      /\ Row(row, VersionFields) /\ row.org = db.versions[v].org /\ row.product = db.versions[v].product /\ row.n = db.versions[v].n /\ row.status = "review"
  <2>1. Row(db.versions[v], VersionFields)
    BY DEF Inv, VersionsOK, VersionOK, VersionFields
  <2>2. Row(row, VersionFields) /\ row.org = db.versions[v].org /\ row.product = db.versions[v].product /\ row.n = db.versions[v].n /\ row.status = "review"
    BY <2>1 DEF Row, VersionFields
  <2> HIDE DEF row
  <2>3. QED
    BY <1>5, <2>2
<1>8. ASSUME NEW x \in mapped
      PROVE  Row(x, JourneyFields) /\ x.version = v /\ x.role = r /\ x.rev \in Nat /\ x.key \in keys
  BY JourneyMapped
<1>9. \A k \in keys : JourneyRow(v, r, k, m.journeys[k]).key = k
  BY JourneyMapped
\* A task another role still walks stays, and so does what covers it.
<1>10. covered = db.coverage \ OfRole(db.coverage, v, r)
  <2>1. ASSUME NEW c \in db.coverage \ OfRole(db.coverage, v, r) PROVE [version |-> c.version, key |-> c.key] \in left
    <3>1. [version |-> c.version, key |-> c.key] \in db.tasks
      BY DEF Inv, CoverageOK
    <3>2. PICK i \in db.journeys : i.version = c.version /\ i.key = c.key /\ i.role = c.role
      BY DEF Inv, CoverageOK, CoveredBy
    <3>3. c.version = v => i \in others
      BY <3>2 DEF OfRole, Of
    <3>4. QED
      BY <3>1, <3>2, <3>3
  <2>2. QED
    BY <2>1
<1>11. JourneysOK'
  <2>1. \A x \in others : Row(x, JourneyFields) /\ Id(x) \in (DOMAIN db.versions) \X Keys \X RoleKeys /\ x.rev \in Nat
    BY <1>6 DEF Inv, JourneysOK, JourneyOK
  <2>2. \A x \in mapped : Row(x, JourneyFields) /\ Id(x) \in (DOMAIN db.versions) \X Keys \X RoleKeys /\ x.rev \in Nat
    BY <1>3, <1>8 DEF Id
  <2>3. \A x, y \in others : Id(x) = Id(y) => x = y
    BY DEF Inv, JourneysOK
  <2>4. ASSUME NEW x \in mapped, NEW y \in mapped, Id(x) = Id(y) PROVE x = y
    <3>1. PICK a \in keys : x = JourneyRow(v, r, a, m.journeys[a])
      OBVIOUS
    <3>2. PICK b \in keys : y = JourneyRow(v, r, b, m.journeys[b])
      OBVIOUS
    <3>3. x.key = a /\ y.key = b
      BY <1>9, <3>1, <3>2
    <3>4. QED
      BY <2>4, <3>1, <3>2, <3>3 DEF Id
  <2>5. ASSUME NEW x \in mapped, NEW y \in others PROVE Id(x) # Id(y)
    BY <1>8 DEF Id, OfRole, Of
  <2> HIDE DEF mapped, others
  <2>6. \A x, y \in others \cup mapped : Id(x) = Id(y) => x = y
    BY <2>3, <2>4, <2>5
  <2>7. \A x \in others \cup mapped : Row(x, JourneyFields) /\ Id(x) \in (DOMAIN db'.versions) \X Keys \X RoleKeys /\ x.rev \in Nat
    BY <1>7, <2>1, <2>2
  <2>8. QED
    BY <1>5, <2>6, <2>7 DEF JourneysOK, JourneyOK, Id
<1>12. CoverageOK'
  <2>1. ASSUME NEW c \in db'.coverage
        PROVE  /\ Row(c, {"version", "role", "key"}) /\ [version |-> c.version, key |-> c.key] \in db'.tasks
               /\ \E i \in db'.journeys : CoveredBy(c, i)
    <3>1. CASE c \in covered
      <4>1. c \in db.coverage \ OfRole(db.coverage, v, r) /\ [version |-> c.version, key |-> c.key] \in left
        BY <3>1
      <4>2. PICK i \in db.journeys : CoveredBy(c, i)
        BY <4>1 DEF Inv, CoverageOK
      <4>3. i \in others
        BY <4>1, <4>2 DEF CoveredBy, OfRole, Of
      <4>4. Row(c, {"version", "role", "key"})
        BY <4>1 DEF Inv, CoverageOK
      <4>5. QED
        BY <1>5, <4>1, <4>2, <4>3, <4>4
    <3>2. CASE c \in covers
      <4>1. PICK k \in keys : c = [version |-> v, role |-> r, key |-> k]
        BY <3>2
      <4>2. JourneyRow(v, r, k, m.journeys[k]) \in db'.journeys
        BY <1>5
      <4>3. CoveredBy(c, JourneyRow(v, r, k, m.journeys[k]))
        BY <4>1, JourneyMapped DEF CoveredBy
      <4>4. [version |-> c.version, key |-> c.key] \in db'.tasks
        BY <1>5, <4>1
      <4>5. Row(c, {"version", "role", "key"})
        BY <4>1 DEF Row
      <4>6. QED
        BY <4>2, <4>3, <4>4, <4>5
    <3>3. QED
      BY <1>5, <3>1, <3>2
  <2>2. QED
    BY <2>1 DEF CoverageOK, CoveredBy
<1>13. PartsOK'
  <2>1. \A x \in screens : Row(x, ScreenFields) /\ x.version = v
    BY DEF Row, ScreenFields, Surveyed
  <2>2. \A x \in moves : Row(x, MoveFields) /\ x.version = v
    BY DEF Row, MoveFields
  <2> HIDE DEF screens, moves
  <2>3. \A x \in db'.screens : Row(x, ScreenFields) /\ x.version \in DOMAIN db'.versions
    BY <1>5, <1>6, <1>7, <2>1
  <2>4. \A x \in db'.moves : Row(x, MoveFields) /\ x.version \in DOMAIN db'.versions
    BY <1>5, <1>6, <1>7, <2>2
  <2>5. \A x \in db'.plays : Row(x, PlayFields) /\ x.version \in DOMAIN db'.versions
    BY <1>5, <1>6, <1>7
  <2>6. TypesOK'
    BY <1>5, MappedTypes DEF screens, Replacing
  <2>7. QED
    BY <2>3, <2>4, <2>5, <2>6 DEF PartsOK, Versioned, ScreenFields, MoveFields, PlayFields
<1>14. ProductsOK' /\ VersionsOK'
  <2>1. db.versions[v].status # "published"
    BY DEF Open
  <2> DEFINE versions == db'.versions
  <2>2. ASSUME NEW p \in DOMAIN db.products
        PROVE  \/ db.products[p].active = Null
               \/ /\ db.products[p].active \in DOMAIN versions /\ versions[db.products[p].active].product = p
                  /\ versions[db.products[p].active].status = "published"
    <3>1. db.products[p].active = Null
          \/ (db.products[p].active \in DOMAIN db.versions \ {v} /\ db.versions[db.products[p].active].product = p
              /\ db.versions[db.products[p].active].status = "published")
      BY <2>1 DEF Inv, ProductsOK, ProductOK
    <3>2. QED
      BY <1>7, <3>1
  <2>3. ProductsOK'
    BY <1>5, <2>2 DEF Inv, ProductsOK, ProductOK
  <2>4. ASSUME NEW u \in DOMAIN db.versions
        PROVE  Row(versions[u], VersionFields) /\ versions[u].product = db.versions[u].product /\ versions[u].org = db.versions[u].org
    <3> HIDE DEF versions, row
    <3>1. CASE u = v
      BY <1>7, <3>1 DEF versions
    <3>2. CASE u # v
      BY <1>7, <3>2 DEF versions, Inv, VersionsOK, VersionOK, VersionFields
    <3>3. QED
      BY <3>1, <3>2
  <2>5. VersionsOK'
    BY <1>5, <1>7, <2>4 DEF Inv, VersionsOK, VersionOK, VersionFields
  <2>6. QED
    BY <2>3, <2>5
<1> HIDE DEF row
<1>15. Inv'
  BY <1>5, <1>7, <1>11, <1>12, <1>13, <1>14, KeepRoles, KeepJobs, KeepArtifacts, KeepKept, KeepSessions, KeepGrants DEF Inv
<1>16. ViewedProducts' = ViewedProducts /\ ViewedJobs' = ViewedJobs /\ ViewedLeases' = ViewedLeases /\ ViewedArtifacts' = ViewedArtifacts
       /\ ViewedGrants' = ViewedGrants /\ ViewedTraining' = ViewedTraining
  BY <1>5, SameProducts, SameJobs, SameLeases DEF ViewedArtifacts, ViewedGrants, ViewedTraining
<1>17. read' = [read EXCEPT !.catalogs = ViewedCatalogs']
  BY <1>5, <1>16, ReadParts, ReadPartsAfter DEF Inv
<1>18. /\ "version" \in JourneyFields /\ "version" \in CoverageFields /\ "version" \in ScreenFields /\ "version" \in MoveFields
       /\ "role" \in JourneyFields \ {"version"} /\ "role" \in CoverageFields \ {"version"} /\ "role" \in ScreenFields \ {"version"}
       /\ "role" \in MoveFields \ {"version"}
  BY DEF JourneyFields, CoverageFields, ScreenFields, MoveFields
<1>19. /\ db'.coverage = (db.coverage \ OfRole(db.coverage, v, r)) \cup covers
       /\ (\A x \in mapped : x.version = v) /\ (\A x \in covers : x.version = v)
       /\ (\A x \in screens : x.version = v) /\ (\A x \in moves : x.version = v)
  <2>1. \A x \in mapped : x.version = v
    BY <1>8
  <2>2. (\A x \in covers : x.version = v) /\ (\A x \in screens : x.version = v) /\ (\A x \in moves : x.version = v)
    BY DEF Surveyed
  <2> HIDE DEF mapped, covers, screens, moves, covered
  <2>3. QED
    BY <1>5, <1>10, <2>1, <2>2
<1>20. SeenOf(mapped) = {P!Mapped(Compared(v), r, k, m.journeys[k]) : k \in keys}
  <2>1. \A k \in keys : W(JourneyRow(v, r, k, m.journeys[k])) = P!Mapped(Compared(v), r, k, m.journeys[k])
    BY JourneyMapped
  <2>2. QED
    BY <2>1 DEF SeenOf
<1>21. SeenOf(covers) = {[role |-> r, key |-> k] : k \in keys}
  <2>1. ASSUME NEW k \in keys PROVE W([version |-> v, role |-> r, key |-> k]) = [role |-> r, key |-> k]
    <3> DEFINE x == [version |-> v, role |-> r, key |-> k]
    <3>1. DOMAIN x \ {"version"} = {"role", "key"} /\ x.role = r /\ x.key = k
      OBVIOUS
    <3>2. W(x) = [g \in {"role", "key"} |-> x[g]]
      BY <3>1 DEF W, Without, Restrict
    <3>3. QED
      BY <3>1, <3>2
  <2>2. QED
    BY <2>1 DEF SeenOf
<1>23. SeenOf(moves) = {[role |-> r, from |-> t[1], to |-> t[2]] : t \in m.moves}
  <2>1. ASSUME NEW t \in m.moves PROVE W([version |-> v, role |-> r, from |-> t[1], to |-> t[2]]) = [role |-> r, from |-> t[1], to |-> t[2]]
    <3> DEFINE x == [version |-> v, role |-> r, from |-> t[1], to |-> t[2]]
    <3>1. DOMAIN x \ {"version"} = {"role", "from", "to"} /\ x.role = r /\ x.from = t[1] /\ x.to = t[2]
      OBVIOUS
    <3>2. W(x) = [g \in {"role", "from", "to"} |-> x[g]]
      BY <3>1 DEF W, Without, Restrict
    <3>3. QED
      BY <3>1, <3>2
  <2>2. QED
    BY <2>1 DEF SeenOf
<1> HIDE DEF mapped, covers, screens, moves, covered, left, named, others
<1> DEFINE c == Compared(v)
           d == Compared(v)'
           seenJourneys == P!OfOthers(c.journeys, r) \cup {P!Mapped(c, r, k, m.journeys[k]) : k \in keys}
           seenCoverage == P!OfOthers(c.coverage, r) \cup {[role |-> r, key |-> k] : k \in keys}
           seenScreens == P!OfOthers(c.screens, r) \cup {[role |-> r, screen |-> s, about |-> Said(s, m.screens[s])] : s \in DOMAIN m.screens}
           seenMoves == P!OfOthers(c.moves, r) \cup {[role |-> r, from |-> t[1], to |-> t[2]] : t \in m.moves}
           said == Undisputed(m)
           remapped == P!WithMap(c, r, said)
<1>33. /\ db'.journeys = Replacing(db.journeys, v, r, mapped) /\ db'.coverage = Replacing(db.coverage, v, r, covers)
       /\ db'.screens = Replacing(db.screens, v, r, screens) /\ db'.moves = Replacing(db.moves, v, r, moves)
  BY <1>5, <1>19 DEF Replacing, others
<1>24. /\ Seen(db'.journeys, v) = P!OfOthers(Seen(db.journeys, v), r) \cup SeenOf(mapped)
       /\ Seen(db'.coverage, v) = P!OfOthers(Seen(db.coverage, v), r) \cup SeenOf(covers)
       /\ Seen(db'.moves, v) = P!OfOthers(Seen(db.moves, v), r) \cup SeenOf(moves)
  <2>1. (\A x \in db.journeys : Row(x, JourneyFields)) /\ (\A x \in db.coverage : Row(x, CoverageFields))
        /\ (\A x \in db.screens : Row(x, ScreenFields)) /\ (\A x \in db.moves : Row(x, MoveFields))
    BY <1>6
  <2>2. /\ Seen(Replacing(db.journeys, v, r, mapped), v) = P!OfOthers(Seen(db.journeys, v), r) \cup SeenOf(mapped)
        /\ Seen(Replacing(db.coverage, v, r, covers), v) = P!OfOthers(Seen(db.coverage, v), r) \cup SeenOf(covers)
        /\ Seen(Replacing(db.moves, v, r, moves), v) = P!OfOthers(Seen(db.moves, v), r) \cup SeenOf(moves)
    <3>1. Seen(Replacing(db.journeys, v, r, mapped), v) = P!OfOthers(Seen(db.journeys, v), r) \cup SeenOf(mapped)
      BY <1>18, <1>19, <2>1, RoleReplaced
    <3>2. Seen(Replacing(db.coverage, v, r, covers), v) = P!OfOthers(Seen(db.coverage, v), r) \cup SeenOf(covers)
      BY <1>18, <1>19, <2>1, RoleReplaced
    <3>4. Seen(Replacing(db.moves, v, r, moves), v) = P!OfOthers(Seen(db.moves, v), r) \cup SeenOf(moves)
      BY <1>18, <1>19, <2>1, RoleReplaced
    <3>5. QED
      BY <3>1, <3>2, <3>4
  <2>3. QED
    BY <1>33, <2>2
<1>25. /\ c.journeys = Seen(db.journeys, v) /\ c.coverage = Seen(db.coverage, v) /\ c.screens = SeenScreens(v) /\ c.moves = Seen(db.moves, v)
       /\ c.plays = Seen(db.plays, v) /\ c.org = db.versions[v].org /\ c.product = db.versions[v].product /\ c.n = db.versions[v].n
       /\ Row(c, SnapshotFields)
  BY ComparedIs DEF Row, SnapshotFields
<1>26. /\ d.journeys = Seen(db'.journeys, v) /\ d.coverage = Seen(db'.coverage, v) /\ d.screens = SeenScreens(v)' /\ d.moves = Seen(db'.moves, v)
       /\ d.plays = Seen(db'.plays, v) /\ d.org = db'.versions[v].org /\ d.product = db'.versions[v].product /\ d.n = db'.versions[v].n
       /\ d.status = db'.versions[v].status /\ Row(d, SnapshotFields)
  <2>1. d = [org |-> db'.versions[v].org, product |-> db'.versions[v].product, n |-> db'.versions[v].n, status |-> db'.versions[v].status,
             journeys |-> Seen(db'.journeys, v), coverage |-> Seen(db'.coverage, v), screens |-> SeenScreens(v)',
             moves |-> Seen(db'.moves, v), plays |-> Seen(db'.plays, v)]
    BY ComparedAfter
  <2> HIDE DEF d
  <2>2. QED
    BY <2>1 DEF Row, SnapshotFields
<1>35. \A u \in DOMAIN db.versions \ {v} : \A s \in Of(db.screens, u) : db'.types[<<s.version, s.screen>>] = db.types[<<s.version, s.screen>>]
  <2>1. TypesMapped(v, m) /\ db'.screens = Replacing(db.screens, v, r, Surveyed(v, r, m))
    BY <1>5, <1>33 DEF screens
  <2>2. QED
    BY <2>1, MappedTypes
<1>34. said.journeys = m.journeys /\ said.moves = m.moves /\ said.screens = [s \in DOMAIN m.screens |-> Said(s, m.screens[s])]
  BY MapIs
<1> HIDE DEF c, d, said, seenJourneys, seenCoverage, seenScreens, seenMoves
<1>27. d.journeys = seenJourneys /\ d.coverage = seenCoverage /\ d.screens = seenScreens /\ d.moves = seenMoves /\ d.status = "review"
       /\ d.plays = c.plays /\ d.org = c.org /\ d.product = c.product /\ d.n = c.n
  <2>1. d.journeys = seenJourneys
    BY <1>20, <1>24, <1>25, <1>26 DEF seenJourneys, c
  <2>2. d.coverage = seenCoverage /\ d.moves = seenMoves
    BY <1>21, <1>23, <1>24, <1>25, <1>26 DEF seenCoverage, seenMoves
  <2>3. d.screens = seenScreens
    BY <1>5, <1>25, <1>26, <1>33, MappedTypes DEF seenScreens, screens
  <2>4. QED
    BY <1>5, <1>7, <1>25, <1>26, <2>1, <2>2, <2>3
<1>28. d = remapped
  <2>1. Row(remapped, SnapshotFields)
    BY <1>25 DEF Row, P!WithMap
  <2>2. /\ remapped.journeys = seenJourneys /\ remapped.coverage = seenCoverage /\ remapped.screens = seenScreens
        /\ remapped.moves = seenMoves /\ remapped.status = "review"
    <3>0. DOMAIN c = SnapshotFields
      BY <1>25 DEF Row
    <3>1. remapped.journeys = seenJourneys
      BY <1>34, <3>0 DEF SnapshotFields, P!WithMap, seenJourneys, keys
    <3>2. remapped.coverage = seenCoverage
      BY <1>34, <3>0 DEF SnapshotFields, P!WithMap, seenCoverage, keys
    <3>3. remapped.screens = seenScreens
      <4>1. {[role |-> r, screen |-> s, about |-> said.screens[s]] : s \in DOMAIN said.screens}
            = {[role |-> r, screen |-> s, about |-> Said(s, m.screens[s])] : s \in DOMAIN m.screens}
        BY <1>34
      <4>2. QED
        BY <3>0, <4>1 DEF SnapshotFields, P!WithMap, seenScreens
    <3>4. remapped.moves = seenMoves
      BY <1>34, <3>0 DEF SnapshotFields, P!WithMap, seenMoves
    <3>5. remapped.status = "review"
      BY <3>0 DEF SnapshotFields, P!WithMap
    <3>6. QED
      BY <3>1, <3>2, <3>3, <3>4, <3>5
  <2>3. remapped.plays = c.plays /\ remapped.org = c.org /\ remapped.product = c.product /\ remapped.n = c.n
    BY <1>25 DEF Row, SnapshotFields, P!WithMap
  <2> HIDE DEF remapped
  <2>4. \A g \in SnapshotFields : d[g] = remapped[g]
    BY <1>27, <2>2, <2>3 DEF SnapshotFields
  <2>5. QED
    BY <1>26, <2>1, <2>4 DEF Row
<1>30. \A u \in DOMAIN db.versions \ {v} : Compared(u)' = Compared(u)
  <2>1. ASSUME NEW u \in DOMAIN db.versions \ {v}
        PROVE  /\ Of(db'.journeys, u) = Of(db.journeys, u) /\ Of(db'.coverage, u) = Of(db.coverage, u)
               /\ Of(db'.screens, u) = Of(db.screens, u) /\ Of(db'.moves, u) = Of(db.moves, u)
    <3>1. u # v
      OBVIOUS
    <3>2. Of(Replacing(db.journeys, v, r, mapped), u) = Of(db.journeys, u)
      BY <1>19, <3>1, OthersStay
    <3>3. Of(Replacing(db.coverage, v, r, covers), u) = Of(db.coverage, u)
      BY <1>19, <3>1, OthersStay
    <3>4. Of(Replacing(db.screens, v, r, screens), u) = Of(db.screens, u)
      BY <1>19, <3>1, OthersStay
    <3>5. Of(Replacing(db.moves, v, r, moves), u) = Of(db.moves, u)
      BY <1>19, <3>1, OthersStay
    <3>6. QED
      BY <1>33, <3>2, <3>3, <3>4, <3>5
  <2>2. QED
    BY <1>5, <1>7, <1>35, <2>1, SameSnapshot
<1>31. P!ReplaceMappedCatalog(o, v, r, said)
  <2>1. ViewedCatalogs' = [ViewedCatalogs EXCEPT ![v] = d]
    BY <1>7, <1>30, OneCatalog DEF d
  <2>2. read.catalogs = ViewedCatalogs /\ v \in DOMAIN ViewedCatalogs /\ ViewedCatalogs = [u \in DOMAIN ViewedCatalogs |-> ViewedCatalogs[u]]
    BY Reads DEF ViewedCatalogs
  <2>3. [ViewedCatalogs EXCEPT ![v] = d] = Put(ViewedCatalogs, v, d)
    BY <2>2 DEF Put
  <2>4. read' = [read EXCEPT !.catalogs = P!Put(@, v, P!WithMap(read.catalogs[v], r, said))]
    BY <1>3, <1>17, <1>28, <2>1, <2>2, <2>3, SamePut DEF c
  <2>5. QED
    BY <1>3, <2>4 DEF P!ReplaceMappedCatalog, P!Saves
<1>32. QED
  BY <1>3, <1>15, <1>31, ByReplaceMappedCatalog DEF Answered, said
\* A delivered map is persisted as the store would persist it.
LEMMA PersistStep ==
  ASSUME Inv, Sensible, read' = Read', NEW w \in WorkerIds, Persist(w) PROVE Answered
<1> DEFINE j == work.serving[w]
<1>1. PICK v : v = db.jobs[j].version
  OBVIOUS
<1>2. PICK r : r = db.jobs[j].role
  OBVIOUS
<1>3. PICK m : m = db.artifacts[j]
  OBVIOUS
<1>4. j \in DOMAIN db.jobs /\ j \in DOMAIN db.artifacts /\ Open(v) /\ kept' = kept /\ v \in DOMAIN db.versions
      /\ db' = Remapped(v, r, m)
  BY <1>1, <1>2, <1>3 DEF Persist, Deliverable, Open
<1>5. r \in RoleKeys /\ m \in Delivered
  BY <1>2, <1>3, <1>4, JobRows DEF Inv, ArtifactsOK, JobRowOK
<1>6. WorkOK'
  BY DEF Persist, WorkOK, Row, Inv
<1>7. QED
  BY <1>4, <1>5, <1>6, Remaps

-----------------------------------------------------------------------------
(* Every transaction is a call, or nothing that is seen. *)

\* A request's first transaction is answered so,
LEMMA CallStep ==
  ASSUME Inv, Sensible, read' = Read', NEW o \in Orgs,
         \/ \E k \in ProductKeys, p \in Drawn(Products, "products") : PostProduct(o, p, k)
         \/ \E p \in DOMAIN db.products :
              \/ DeleteProduct(o, p)
              \/ \E v \in Drawn(Versions, "versions") : PostCatalog(o, p, v)
              \/ \E k \in RoleKeys, c \in Credentials \cup {Null} : PostRole(o, p, k, c)
              \/ \E g \in Drawn(Grants, "grants"), k \in RoleKeys : PostGrant(o, g, p, k)
              \/ \E w \in WorkerIds : BeginDemo(o, p, w)
         \/ \E v \in DOMAIN db.versions :
              \/ PostPublish(o, v)
              \/ \E n \in Plays : TrainPlay(o, v, n) \/ ApprovePlay(o, v, n)
              \/ \E r \in RoleKeys : PostMappingJob(o, v, r)
         \/ \E j \in db.journeys, d \in Decisions : PostReview(o, j, d)
         \/ \E j \in DOMAIN db.jobs, action \in DOMAIN ToStatus : PostControl(o, j, action)
         \/ \E c \in Drawn(Credentials, "credentials") : PostCredential(o, c)
         \/ \E g \in DOMAIN db.grants : DeleteGrant(o, g)
  PROVE  Answered
<1>1. ASSUME NEW k \in ProductKeys, NEW p \in Drawn(Products, "products"), PostProduct(o, p, k) PROVE Answered
  BY <1>1, PostProductStep
<1>2. ASSUME NEW p \in DOMAIN db.products, DeleteProduct(o, p) PROVE Answered
  BY <1>2, DeleteProductStep
<1>3. ASSUME NEW p \in DOMAIN db.products, NEW v \in Drawn(Versions, "versions"), PostCatalog(o, p, v) PROVE Answered
  BY <1>3, PostCatalogStep
<1>4. ASSUME NEW p \in DOMAIN db.products, NEW k \in RoleKeys, NEW c \in Credentials \cup {Null}, PostRole(o, p, k, c) PROVE Answered
  BY <1>4, PostRoleStep
<1>5. ASSUME NEW p \in DOMAIN db.products, NEW g \in Drawn(Grants, "grants"), NEW k \in RoleKeys, PostGrant(o, g, p, k) PROVE Answered
  BY <1>5, PostGrantStep
<1>6. ASSUME NEW p \in DOMAIN db.products, NEW w \in WorkerIds, BeginDemo(o, p, w) PROVE Answered
  BY <1>6, BeginDemoStep
<1>7. ASSUME NEW v \in DOMAIN db.versions, PostPublish(o, v) PROVE Answered
  BY <1>7, PostPublishStep
<1>8. ASSUME NEW v \in DOMAIN db.versions, NEW n \in Plays, TrainPlay(o, v, n) \/ ApprovePlay(o, v, n) PROVE Answered
  BY <1>8, PlayStep
<1>9. ASSUME NEW v \in DOMAIN db.versions, NEW r \in RoleKeys, PostMappingJob(o, v, r) PROVE Answered
  BY <1>9, PostMappingJobStep
<1>10. ASSUME NEW j \in db.journeys, NEW d \in Decisions, PostReview(o, j, d) PROVE Answered
  BY <1>10, PostReviewStep
<1>11. ASSUME NEW j \in DOMAIN db.jobs, NEW action \in DOMAIN ToStatus, PostControl(o, j, action) PROVE Answered
  BY <1>11, PostControlStep
<1>12. ASSUME NEW c \in Drawn(Credentials, "credentials"), PostCredential(o, c) PROVE Answered
  BY <1>12, PostCredentialStep
<1>13. ASSUME NEW g \in DOMAIN db.grants, DeleteGrant(o, g) PROVE Answered
  BY <1>13, DeleteGrantStep
<1>14. QED
  BY <1>1, <1>2, <1>3, <1>4, <1>5, <1>6, <1>7, <1>8, <1>9, <1>10, <1>11, <1>12, <1>13

\* what it has still to write,
LEMMA RestStep ==
  ASSUME Inv, Sensible, read' = Read', NEW f \in work.requests,
         \/ \E e \in Drawn(Events, "training") : NoteReview(f, e) \/ NoteControl(f, e)
         \/ \E j \in Drawn(JobIds, "jobs") : QueueRework(f, j) \/ QueueMapping(f, j)
         \/ \E s \in Drawn(Sessions, "sessions") : StartDemo(f, s)
         \/ \E x \in Drawn(SignalIds, "feedback") : SaveSignal(f, x)
         \/ PublishCatalog(f) \/ Abandon(f)
  PROVE  Answered
<1>1. ASSUME NEW e \in Drawn(Events, "training"), NoteReview(f, e) PROVE Answered
  BY <1>1, NoteReviewStep
<1>2. ASSUME NEW e \in Drawn(Events, "training"), NoteControl(f, e) PROVE Answered
  BY <1>2, NoteControlStep
<1>3. ASSUME NEW j \in Drawn(JobIds, "jobs"), QueueRework(f, j) PROVE Answered
  BY <1>3, QueueReworkStep
<1>4. ASSUME NEW j \in Drawn(JobIds, "jobs"), QueueMapping(f, j) PROVE Answered
  BY <1>4, QueueMappingStep
<1>5. ASSUME NEW s \in Drawn(Sessions, "sessions"), StartDemo(f, s) PROVE Answered
  BY <1>5, StartDemoStep
<1>6. ASSUME NEW x \in Drawn(SignalIds, "feedback"), SaveSignal(f, x) PROVE Answered
  BY <1>6, SaveSignalStep
<1>7. CASE PublishCatalog(f)
  BY <1>7, PublishStep
<1>8. CASE Abandon(f)
  BY <1>8, AbandonStep
<1>9. QED
  BY <1>1, <1>2, <1>3, <1>4, <1>5, <1>6, <1>7, <1>8

\* and what a worker does.
LEMMA WorkerStep ==
  ASSUME Inv, Sensible, read' = Read', NEW w \in WorkerIds,
         \/ \E j \in DOMAIN db.jobs : ClaimRow(w, j)
         \/ \E m \in Maps : Delivers(w, m)
         \/ \E e \in Drawn(Events, "training") : Reports(w, e)
         \/ Progress(w) \/ PersistRefused(w) \/ WorkerDies(w)
         \/ Persist(w)
         \/ Stops(w, {"completed"})
         \/ Stops(w, {"queued", "failed"})
         \/ \E s \in Sessions : CheckpointDemo(w, s) \/ EndDemo(w, s) \/ RecoverDemo(w, s)
  PROVE  Answered
<1>1. ASSUME NEW j \in DOMAIN db.jobs, ClaimRow(w, j) PROVE Answered
  BY <1>1, ClaimStep
<1>2. ASSUME NEW m \in Maps, Delivers(w, m) PROVE Answered
  BY <1>2, DeliversStep
<1>3. ASSUME NEW e \in Drawn(Events, "training"), Reports(w, e) PROVE Answered
  BY <1>3, ReportsStep
<1>4. CASE Progress(w)
  BY <1>4, ProgressStep
<1>5. CASE WorkerDies(w)
  BY <1>5, CrashStep
<1>6. CASE Persist(w)
  BY <1>6, PersistStep
<1>7. CASE Stops(w, {"completed"})
  <2>1. {"completed"} \in SUBSET {"queued", "completed", "failed"}
    OBVIOUS
  <2>2. QED
    BY <1>7, <2>1, StopsStep
<1>8. CASE Stops(w, {"queued", "failed"}) \/ PersistRefused(w)
  <2>1. {"queued", "failed"} \in SUBSET {"queued", "completed", "failed"}
    OBVIOUS
  <2>2. Stops(w, {"queued", "failed"})
    BY <1>8 DEF PersistRefused
  <2>3. QED
    BY <2>1, <2>2, StopsStep
<1>9. ASSUME NEW s \in Sessions, CheckpointDemo(w, s) \/ EndDemo(w, s) \/ RecoverDemo(w, s) PROVE Answered
  BY <1>9, CheckpointDemoStep, EndDemoStep, RecoverDemoStep
<1>10. QED
  BY <1>1, <1>2, <1>3, <1>4, <1>5, <1>6, <1>7, <1>8, <1>9

\* Every transaction is answered as the store would answer it.
LEMMA DatabaseStep == ASSUME Inv, Sensible, DatabaseNext PROVE Answered
<1>1. read' = Read' /\ Transaction
  BY DEF DatabaseNext
<1>2. CASE Lapses
  BY <1>1, <1>2, LapsesStep
<1>3. QED
  BY <1>1, <1>2, CallStep, RestStep, WorkerStep DEF Transaction

\* Nothing happens to both at once.
LEMMA Stutters == ASSUME Inv, UNCHANGED databaseVars PROVE Answered
<1>1. db' = db /\ work' = work /\ kept' = kept /\ read' = read
  BY DEF databaseVars
<1>2. WorkOK' /\ Read' = Read
  BY <1>1 DEF WorkOK, Inv, Read, Compared, Snapshot, DescribedScreen, Of, RolesOf, Leases
<1>3. QED
  BY <1>1, <1>2, Unwritten DEF Answered, Inv

\* Both begin empty.
LEMMA Starts == ASSUME Sensible, DatabaseInit PROVE Inv /\ P!StoreInit
<1> DEFINE none == [k \in {} |-> Null]
<1>1. /\ db.products = none /\ db.versions = none /\ db.types = none /\ db.jobs = none /\ db.training = none /\ db.artifacts = none /\ db.sessions = none
      /\ db.credentials = none /\ db.grants = none /\ db.feedback = none
      /\ db.roles = {} /\ db.tasks = {} /\ db.journeys = {} /\ db.coverage = {} /\ db.screens = {} /\ db.moves = {} /\ db.plays = {}
      /\ Row(db, Tables)
  BY DEF DatabaseInit, RowsInit, Row, Tables
<1>2. kept.leases = none /\ kept.artifacts = none /\ kept.grants = none /\ kept.training = none /\ kept.ids = {}
      /\ Row(kept, {"leases", "artifacts", "grants", "training", "ids"})
  BY DEF DatabaseInit, Row
<1>3. WorkOK
  BY DEF DatabaseInit, WorkOK, Row
<1>4. DOMAIN none = {} /\ none = [k \in DOMAIN none |-> none[k]]
  OBVIOUS
<1> HIDE DEF none
<1>5. Inv
  <2>1. ProductsOK /\ RolesOK /\ VersionsOK /\ JobsOK /\ ArtifactsOK /\ KeptOK /\ SessionsOK /\ GrantsOK
    BY <1>1, <1>2, <1>4 DEF ProductsOK, RolesOK, VersionsOK, JobsOK, ArtifactsOK, KeptOK, SessionsOK, GrantsOK
  <2>2. JourneysOK /\ CoverageOK /\ PartsOK
    BY <1>1, <1>4 DEF JourneysOK, CoverageOK, PartsOK, TypesOK, Versioned
  <2>3. QED
    BY <1>1, <1>2, <1>3, <2>1, <2>2 DEF Inv, DatabaseInit
<1>6. \A f : f = [x \in DOMAIN f |-> f[x]] /\ DOMAIN f = {} => f = P!Empty
  BY DEF P!Empty
<1>7. ViewedProducts = P!Empty /\ ViewedCatalogs = P!Empty /\ ViewedJobs = P!Empty /\ none = P!Empty
  BY <1>1, <1>4, <1>6 DEF ViewedProducts, ViewedCatalogs, ViewedJobs
<1>8. Over(none, none) = P!Empty /\ Leases = none
  BY <1>1, <1>4, <1>6, <1>7 DEF Over, Leases
<1>9. ViewedLeases = P!Empty /\ ViewedArtifacts = P!Empty /\ ViewedGrants = P!Empty /\ ViewedTraining = P!Empty
  BY <1>1, <1>2, <1>8 DEF ViewedLeases, ViewedArtifacts, ViewedGrants, ViewedTraining
<1>10. read = [products |-> ViewedProducts, catalogs |-> ViewedCatalogs, jobs |-> ViewedJobs, leases |-> ViewedLeases,
               artifacts |-> ViewedArtifacts, sessions |-> db.sessions, credentials |-> db.credentials, grants |-> ViewedGrants,
               feedback |-> db.feedback, training |-> ViewedTraining]
  BY ReadParts DEF DatabaseInit
<1>11. P!StoreInit
  BY <1>1, <1>7, <1>9, <1>10 DEF P!StoreInit
<1>12. QED
  BY <1>5, <1>11

\* The rows keep their shape and their keys: an id names one row, a lease is of
\* a running job, the active version of a product is its published one, what is
\* covered has its journey, what is kept of a removed product is of no job left,
\* and a screen has its type, whose words are those of some map.
THEOREM StoreInvariant == ASSUME Sensible PROVE DatabaseSpec => []Inv
<1>1. DatabaseInit => Inv
  BY Starts
<1>2. Inv /\ [DatabaseNext]_databaseVars => Inv'
  BY DatabaseStep, Stutters DEF Answered
<1>3. QED
  BY <1>1, <1>2, PTL DEF DatabaseSpec

\* Every transaction of the database is a call the tests' store would have
\* answered the same way, or one that nobody sees (storage/postgres.ts,
\* storage/memory.ts).  What is said of a screen that two maps dispute is left
\* out on both sides: there the database has the last map's word for every role.
THEOREM StoreImplemented == ASSUME Sensible PROVE DatabaseSpec => ImplementsStore
<1>1. DatabaseInit => P!StoreInit
  BY Starts
<1>2. Inv /\ [DatabaseNext]_databaseVars => [UNCHANGED read \/ P!StoreNext]_read
  BY DatabaseStep, Stutters DEF Answered
<1>3. DatabaseSpec => []Inv
  BY StoreInvariant
<1>4. QED
  BY <1>1, <1>2, <1>3, PTL DEF DatabaseSpec, ImplementsStore
=============================================================================
