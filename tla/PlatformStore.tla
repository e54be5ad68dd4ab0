---------------------------- MODULE PlatformStore ----------------------------
(***************************************************************************)
(* What the platform's repositories promise: the store the tests run       *)
(* against, storage/memory.ts, "with the same tenant semantics as          *)
(* PostgreSQL".  One action per call that changes something; a call the    *)
(* store refuses changes nothing and is no step.  Ids are the caller's.    *)
(* Left out: the calls no product code makes (saveJourney,                 *)
(* replaceCoverage, saveCorrection), the planners' knowledge, and when     *)
(* something was created and updated.                                      *)
(***************************************************************************)
EXTENDS Naturals, FiniteSetsExt, Functions

CONSTANTS
  Orgs, ProductKeys, RoleKeys, Products, Versions, Jobs, Workers, Sessions, Grants, Credentials, Signals, Events, Plays,
  Maps,         \* what a mapper may deliver: [journeys: key -> text, screens: key -> name, url and purpose, moves]
  None

VARIABLE store
\* products:    id -> [org, key, active, roles: key -> credential]
\* catalogs:    version -> [org, product, n, status, journeys, coverage, screens, moves, plays]
\* jobs:        id -> [org, product, version, role, status]
\* leases:      job -> [owner, live]
\* artifacts:   job -> what its mapper delivered
\* sessions:    id -> [org, product, version, status, worker, live]
\* credentials: id -> org
\* grants:      id -> [org, product, role, revoked]
\* feedback:    id -> [org, product, session]
\* training:    id -> [org, product, job, journey]

Empty == [k \in {} |-> None]
Put(f, k, v) == [x \in DOMAIN f \cup {k} |-> IF x = k THEN v ELSE f[x]]
Drop(f, K) == Restrict(f, DOMAIN f \ K)
OfProduct(f, p) == {k \in DOMAIN f : f[k].product = p}

StoreInit ==
  store = [products |-> Empty, catalogs |-> Empty, jobs |-> Empty, leases |-> Empty, artifacts |-> Empty, sessions |-> Empty,
           credentials |-> Empty, grants |-> Empty, feedback |-> Empty, training |-> Empty]

Mine(o, table) == {k \in DOMAIN store[table] : store[table][k].org = o}
Editable(o, v) == v \in Mine(o, "catalogs") /\ store.catalogs[v].status \in {"draft", "mapping", "verifying", "review"}
Saves(table, id, value) == store' = [store EXCEPT ![table] = Put(@, id, value)]

-----------------------------------------------------------------------------
(* Products and their catalog versions *)

CreateProduct(o, p, k) ==
  /\ p \notin DOMAIN store.products
  /\ Saves("products", p, [org |-> o, key |-> k, active |-> None, roles |-> [r \in {"default"} |-> None]])

\* "Mirrors the SQL cascade: the product, then everything versioned under it."
RemoveProduct(o, p) ==
  /\ p \in Mine(o, "products")
  /\ store' = [store EXCEPT !.products = Drop(@, {p}), !.catalogs = Drop(@, OfProduct(@, p)),
                            !.sessions = Drop(@, OfProduct(@, p)), !.jobs = Drop(@, OfProduct(@, p))]

\* A draft begins as a copy of the active version; drafts of plays stay behind.
CreateDraft(o, p, v) ==
  /\ p \in Mine(o, "products") /\ v \notin DOMAIN store.catalogs
  /\ LET active == store.products[p].active
         own == OfProduct(store.catalogs, p)
         fresh == [org |-> o, product |-> p, n |-> Max({0} \cup {store.catalogs[x].n : x \in own}) + 1, status |-> "draft",
                   journeys |-> {}, coverage |-> {}, screens |-> {}, moves |-> {}, plays |-> {}]
     IN Saves("catalogs", v,
              IF active \notin own THEN fresh
              ELSE [store.catalogs[active] EXCEPT !.n = fresh.n, !.status = "draft", !.plays = {x \in @ : x.approved}])

Publish(o, v) ==
  /\ v \in Mine(o, "catalogs")
  /\ store.catalogs[v].journeys # {}
  /\ \A j \in store.catalogs[v].journeys : j.approval = "approved" /\ j.approved = j.text
  /\ LET p == store.catalogs[v].product
         Status(x) == IF x = v THEN "published"
                      ELSE IF x \in OfProduct(store.catalogs, p) /\ store.catalogs[x].status = "published" THEN "retired"
                      ELSE store.catalogs[x].status
     IN store' = [store EXCEPT !.catalogs = [x \in DOMAIN @ |-> [@[x] EXCEPT !.status = Status(x)]], !.products[p].active = v]

ReviewJourney(o, v, j, decision) ==
  /\ Editable(o, v) /\ j \in store.catalogs[v].journeys
  /\ store' = [store EXCEPT !.catalogs[v].journeys =
       (@ \ {j}) \cup {[j EXCEPT !.approval = decision, !.approved = IF decision = "approved" THEN j.text ELSE None]}]

SaveSalesPlay(o, v, play) ==
  /\ Editable(o, v)
  /\ store' = [store EXCEPT !.catalogs[v].plays = {x \in @ : x.id # play.id} \cup {play}]

\* The map of a role replaces that role's part of a version; an approval
\* outlives it with the exact text it was given for.
Mapped(c, r, k, text) ==
  LET was == {j \in c.journeys : j.role = r /\ j.key = k}
      still == \E j \in was : j.approval = "approved" /\ j.approved = text
  IN [key |-> k, role |-> r, text |-> text,
      rev |-> IF was = {} THEN 1 ELSE Max({j.rev + (IF j.text = text THEN 0 ELSE 1) : j \in was}),
      approval |-> IF still THEN "approved" ELSE "pending", approved |-> IF still THEN text ELSE None]
OfOthers(rows, r) == {x \in rows : x.role # r}
WithMap(c, r, m) ==
  [c EXCEPT
     !.journeys = OfOthers(@, r) \cup {Mapped(c, r, k, m.journeys[k]) : k \in DOMAIN m.journeys},
     !.coverage = OfOthers(@, r) \cup {[role |-> r, key |-> k] : k \in DOMAIN m.journeys},
     !.screens = OfOthers(@, r) \cup {[role |-> r, screen |-> s, about |-> m.screens[s]] : s \in DOMAIN m.screens},
     !.moves = OfOthers(@, r) \cup {[role |-> r, from |-> t[1], to |-> t[2]] : t \in m.moves},
     !.status = "review"]
ReplaceMappedCatalog(o, v, r, m) ==
  Editable(o, v) /\ Saves("catalogs", v, WithMap(store.catalogs[v], r, m))

-----------------------------------------------------------------------------
(* Mapping jobs, under a lease that runs out with the clock *)

Enqueue(o, j, p, v, r) ==
  j \notin DOMAIN store.jobs /\ Saves("jobs", j, [org |-> o, product |-> p, version |-> v, role |-> r, status |-> "queued"])

ClaimJob(o, j, w) ==
  /\ j \in Mine(o, "jobs")
  /\ \/ store.jobs[j].status = "queued"
     \/ store.jobs[j].status = "running" /\ (j \in DOMAIN store.leases => store.leases[j].owner = w \/ ~store.leases[j].live)
  /\ store' = [store EXCEPT !.jobs[j].status = "running", !.leases = Put(@, j, [owner |-> w, live |-> TRUE])]

Checkpoint(o, j, w, status) ==
  /\ j \in Mine(o, "jobs") /\ j \in DOMAIN store.leases /\ store.leases[j].owner = w
  /\ store' = [store EXCEPT !.jobs[j].status = status,
                            !.leases = IF status = "running" THEN Put(@, j, [owner |-> w, live |-> TRUE]) ELSE Drop(@, {j})]

From == [pause |-> {"queued", "running"}, resume |-> {"waiting_for_human"}, cancel |-> {"queued", "running", "waiting_for_human"}]
To == [pause |-> "waiting_for_human", resume |-> "queued", cancel |-> "cancelled"]
ControlJob(o, j, action) ==
  /\ j \in Mine(o, "jobs") /\ store.jobs[j].status \in From[action]
  /\ store' = [store EXCEPT !.jobs[j].status = To[action], !.leases = Drop(@, {j})]

SaveArtifact(o, j, m) == j \in Mine(o, "jobs") /\ Saves("artifacts", j, m)

-----------------------------------------------------------------------------
(* Sessions: saved by the worker that serves them, claimed by the one that  *)
(* recovers them.                                                           *)

CreateSession(o, s, p, v, w) ==
  /\ s \notin DOMAIN store.sessions
  /\ Saves("sessions", s, [org |-> o, product |-> p, version |-> v, status |-> "active", worker |-> w, live |-> TRUE])
UpdateSession(o, s, w, status, live) ==
  /\ s \in Mine(o, "sessions")
  /\ Saves("sessions", s, [store.sessions[s] EXCEPT !.status = status, !.worker = w, !.live = live])
ClaimRecovery(o, s, w) ==
  /\ s \in Mine(o, "sessions") /\ store.sessions[s].status = "active"
  /\ store.sessions[s].worker = w \/ ~store.sessions[s].live
  /\ Saves("sessions", s, [store.sessions[s] EXCEPT !.worker = w, !.live = TRUE])

LeaseLapses ==
  \/ \E j \in DOMAIN store.leases : store.leases[j].live /\ store' = [store EXCEPT !.leases[j].live = FALSE]
  \/ \E s \in DOMAIN store.sessions : store.sessions[s].live /\ store' = [store EXCEPT !.sessions[s].live = FALSE]

-----------------------------------------------------------------------------
(* Access, and what is learned from use *)

SaveCredentialRef(o, c) == Saves("credentials", c, o)
SaveRoleProfile(o, p, k, c) ==
  p \in Mine(o, "products") /\ store' = [store EXCEPT !.products[p].roles = Put(@, k, c)]
SaveEmbedGrant(o, g, p, k) == Saves("grants", g, [org |-> o, product |-> p, role |-> k, revoked |-> FALSE])
RevokeEmbedGrant(o, g) == g \in Mine(o, "grants") /\ Saves("grants", g, [store.grants[g] EXCEPT !.revoked = TRUE])
SaveFeedback(o, f, p, s) == Saves("feedback", f, [org |-> o, product |-> p, session |-> s])
AppendTraining(o, e, p, j, journey) == Saves("training", e, [org |-> o, product |-> p, job |-> j, journey |-> journey])

-----------------------------------------------------------------------------
JourneyIds == Versions \X (UNION {DOMAIN m.journeys : m \in Maps}) \X RoleKeys
StoreNext ==
  \E o \in Orgs :
    \/ \E p \in Products :
         \/ \E k \in ProductKeys : CreateProduct(o, p, k)
         \/ RemoveProduct(o, p)
         \/ \E v \in Versions : CreateDraft(o, p, v)
         \/ \E k \in RoleKeys, c \in Credentials \cup {None} : SaveRoleProfile(o, p, k, c)
         \/ \E g \in Grants, k \in RoleKeys : SaveEmbedGrant(o, g, p, k)
         \/ \E f \in Signals, s \in Sessions : SaveFeedback(o, f, p, s)
         \/ \E j \in Jobs, v \in Versions, r \in RoleKeys : Enqueue(o, j, p, v, r)
         \/ \E s \in Sessions, v \in Versions, w \in Workers : CreateSession(o, s, p, v, w)
         \/ \E e \in Events, j \in Jobs \cup {None}, journey \in JourneyIds \cup {<<>>} : AppendTraining(o, e, p, j, journey)
    \/ \E v \in Versions :
         \/ Publish(o, v)
         \/ v \in DOMAIN store.catalogs /\ \E j \in store.catalogs[v].journeys, d \in {"approved", "rejected", "rework_requested"} :
              ReviewJourney(o, v, j, d)
         \/ \E n \in Plays, approved \in BOOLEAN : SaveSalesPlay(o, v, [id |-> n, approved |-> approved])
         \/ \E r \in RoleKeys, m \in Maps : ReplaceMappedCatalog(o, v, r, m)
    \/ \E j \in Jobs :
         \/ \E w \in Workers : ClaimJob(o, j, w) \/ \E status \in {"queued", "running", "completed", "failed"} : Checkpoint(o, j, w, status)
         \/ \E action \in DOMAIN To : ControlJob(o, j, action)
         \/ \E m \in Maps : SaveArtifact(o, j, m)
    \/ \E s \in Sessions, w \in Workers :
         \/ \E status \in {"active", "ended"}, live \in BOOLEAN : UpdateSession(o, s, w, status, live)
         \/ ClaimRecovery(o, s, w)
    \/ \E c \in Credentials : SaveCredentialRef(o, c)
    \/ \E g \in Grants : RevokeEmbedGrant(o, g)
    \/ LeaseLapses

StoreSpec == StoreInit /\ [][StoreNext]_store
=============================================================================
