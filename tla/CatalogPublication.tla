------------------------- MODULE CatalogPublication -------------------------
(***************************************************************************)
(* Catalog versions of one product of the live server: the mapper replaces *)
(* a draft, people review its journeys, an administrator publishes it, and *)
(* the workers serve the published bundle through two layers of cache.     *)
(* A transaction is one action, except that publishing runs at READ        *)
(* COMMITTED: it decides which version to retire before others commit.     *)
(***************************************************************************)
EXTENDS Naturals, FiniteSets, Functions

CONSTANTS Versions,    \* 1 .. n: catalog versions, in the order they are drafted
          Journeys, Contents,
          Workers,     \* server processes
          Admins,      \* publish requests at a time
          MaxReviews   \* bound: decisions of people and runs of the mapper
\* No row has the number 0.
ASSUME VersionsAssumption == Versions \subseteq Nat \ {0}

VARIABLES rows,      \* catalog_versions with their journey_versions
          pointer,   \* products.active_catalog_version_id
          pubs,      \* the publications under way: [at, on, version, bundle, retires]
          local,     \* MemoryBundleCache of each worker
          shared,    \* RedisBundleCache
          reqs,      \* the request for the active bundle under way on each worker
          reviewed,  \* history: what a person approved
          reviews

publicationVars == <<rows, pointer, pubs, local, shared, reqs, reviewed, reviews>>

None == [version |-> 0, journeys |-> <<>>]
Missing == [content |-> 0, approved |-> 0]
Row(status) == [status |-> status, journeys |-> [j \in Journeys |-> Missing], bundle |-> None]
OpenStates == {"draft", "review"}
Free == [at |-> "free", on |-> "none", version |-> 0, bundle |-> None, retires |-> {}]
Calm == [version |-> 0, bundle |-> None]
Cold == [active |-> None, byId |-> [v \in Versions |-> None]]

PublicationInit ==
  /\ rows = [v \in Versions |-> Row("none")]
  /\ pointer = 0
  /\ pubs = [a \in Admins |-> Free]
  /\ local = [w \in Workers |-> Cold] /\ shared = Cold
  /\ reqs = [w \in Workers |-> Calm]
  /\ reviewed = {} /\ reviews = 0

Caches == <<local, shared>>
Serving == <<local, shared, reqs>>
Bundles == {None} \cup {rows[v].bundle : v \in Versions} \cup Range(shared.byId) \cup UNION {Range(local[w].byId) : w \in Workers}
Locked(v) == \E a \in Admins : pubs[a].version = v /\ pubs[a].at = "retired"

-----------------------------------------------------------------------------
(* Drafts *)

\* createDraft: a draft starts as a copy of the active version, approvals included.
CreateDraft(v) ==
  /\ rows[v].status = "none" /\ \A u \in Versions : u < v => rows[u].status # "none"
  /\ rows' = [rows EXCEPT ![v] =
       [Row("draft") EXCEPT !.journeys = IF pointer # 0 /\ rows[pointer].status = "published"
                                         THEN rows[pointer].journeys ELSE @]]
  /\ UNCHANGED <<pointer, pubs, Serving, reviewed, reviews>>

\* wrong: an approval stays with the journey
MappedBlindly(old, content) ==
  [content |-> content, approved |-> IF old.approved # 0 THEN content ELSE 0]
\* replaceMappedCatalog: an approval stays only with the content it was given for.
Mapped(old, content) ==
  [content |-> content, approved |-> IF content # 0 /\ old.approved = content THEN content ELSE 0]
ReplaceMapped(v) ==
  /\ rows[v].status \in OpenStates /\ ~Locked(v) /\ reviews < MaxReviews
  /\ reviews' = reviews + 1
  /\ \E new \in [Journeys -> {0} \cup Contents] :
       rows' = [rows EXCEPT ![v].status = "review", ![v].journeys = [j \in Journeys |-> Mapped(rows[v].journeys[j], new[j])]]
  /\ UNCHANGED <<pointer, pubs, Serving, reviewed>>

ReviewJourney(v, j, approve) ==
  /\ rows[v].status \in OpenStates /\ ~Locked(v) /\ reviews < MaxReviews
  /\ rows[v].journeys[j].content # 0
  /\ reviews' = reviews + 1
  /\ LET c == rows[v].journeys[j].content
     IN /\ rows' = [rows EXCEPT ![v].journeys[j].approved = IF approve THEN c ELSE 0]
        /\ reviewed' = IF approve THEN reviewed \cup {<<j, c>>} ELSE reviewed
  /\ UNCHANGED <<pointer, pubs, Serving>>

-----------------------------------------------------------------------------
(* CatalogService.publish *)

Approved(r) == r.content # 0 /\ r.approved = r.content
\* compileRuntimeBundle: only journeys approved as they are.
Compiled(v) ==
  [version |-> v,
   journeys |-> [j \in {i \in Journeys : Approved(rows[v].journeys[i])} |-> rows[v].journeys[j].content]]

\* The snapshot passed the coverage gates and its artifact is stored.
PreparePublish(a, v) ==
  /\ pubs[a].at = "free" /\ rows[v].status # "none"
  /\ \E w \in Workers : pubs' = [pubs EXCEPT ![a] = [at |-> "stored", on |-> w, version |-> v, bundle |-> Compiled(v), retires |-> {}]]
  /\ UNCHANGED <<rows, pointer, Serving, reviewed, reviews>>

\* The transaction: the version is locked, open, and fully approved by now.
AllApproved(v) ==
  LET present == {j \in Journeys : rows[v].journeys[j].content # 0}
  IN present # {} /\ \A j \in present : Approved(rows[v].journeys[j])
MayPublish(v) == rows[v].status \in OpenStates /\ AllApproved(v)
Retire(a) ==
  /\ pubs[a].at = "stored" /\ ~Locked(pubs[a].version)
  /\ pubs' = IF MayPublish(pubs[a].version)
             THEN [pubs EXCEPT ![a].at = "retired", ![a].retires = {v \in Versions : rows[v].status = "published"}]
             ELSE [pubs EXCEPT ![a] = Free]
  /\ UNCHANGED <<rows, pointer, Serving, reviewed, reviews>>
Commit(a) ==
  /\ pubs[a].at = "retired"
  /\ LET p == pubs[a]
     IN /\ rows' = [v \in Versions |->
             IF v = p.version THEN [rows[v] EXCEPT !.status = "published", !.bundle = p.bundle]
             ELSE IF v \in p.retires THEN [rows[v] EXCEPT !.status = "retired"] ELSE rows[v]]
        /\ pointer' = p.version
        /\ pubs' = [pubs EXCEPT ![a].at = "committed"]
  /\ UNCHANGED <<Serving, reviewed, reviews>>

\* The caches are warmed; what Redis does not take is lost.
Warm(a) ==
  /\ pubs[a].at = "committed"
  /\ LET b == pubs[a].bundle
     IN /\ local' = [local EXCEPT ![pubs[a].on] = [active |-> b, byId |-> [@.byId EXCEPT ![b.version] = b]]]
        /\ \E byId, active \in BOOLEAN :
             shared' = [active |-> IF active THEN b ELSE shared.active,
                        byId |-> IF byId THEN [shared.byId EXCEPT ![b.version] = b] ELSE shared.byId]
  /\ pubs' = [pubs EXCEPT ![a] = Free]
  /\ UNCHANGED <<rows, pointer, reqs, reviewed, reviews>>

-----------------------------------------------------------------------------
(* CatalogService.activeBundle and bundle *)

\* The shared pointer first; without one, and when Redis fails, the local one;
\* without that the database.
ReadActive(w) ==
  /\ reqs[w].version = 0
  /\ \/ /\ shared.active # None
        /\ local' = [local EXCEPT ![w].active = shared.active] /\ UNCHANGED reqs
     \/ /\ local[w].active = None /\ pointer # 0 /\ rows[pointer].status = "published"
        /\ reqs' = [reqs EXCEPT ![w].version = pointer] /\ UNCHANGED local
  /\ UNCHANGED <<rows, pointer, pubs, shared, reviewed, reviews>>

\* Only what was published is read from the database.
Readable(v) == rows[v].status \in {"published", "retired"}
\* bundle(): the caches, else the artifact, checked against its checksum.
Bundle(w, v, b) ==
  \/ local[w].byId[v] # None /\ b = local[w].byId[v] /\ UNCHANGED Caches
  \/ /\ local[w].byId[v] = None /\ shared.byId[v] # None
     /\ b = shared.byId[v] /\ local' = [local EXCEPT ![w].byId[v] = b] /\ UNCHANGED shared
  \/ /\ local[w].byId[v] = None /\ Readable(v) /\ b = rows[v].bundle
     /\ local' = [local EXCEPT ![w].byId[v] = b]
     /\ shared' = [shared EXCEPT !.byId[v] = b] \/ UNCHANGED shared
LoadActive(w) ==
  /\ reqs[w].version # 0 /\ reqs[w].bundle = None
  /\ \E b \in Bundles : Bundle(w, reqs[w].version, b) /\ reqs' = [reqs EXCEPT ![w].bundle = b]
  /\ UNCHANGED <<rows, pointer, pubs, reviewed, reviews>>
\* A session pinned to a version, also after another one was published.
ReadPinned(w, v) ==
  /\ \E b \in Bundles : Bundle(w, v, b)
  /\ UNCHANGED <<rows, pointer, pubs, reqs, reviewed, reviews>>
\* The active bundle is remembered and handed out.
Answer(w) ==
  /\ reqs[w].bundle # None
  /\ reqs' = [reqs EXCEPT ![w] = Calm]
  /\ local' = [local EXCEPT ![w].active = reqs[w].bundle]
  /\ shared' = [shared EXCEPT !.active = reqs[w].bundle] \/ UNCHANGED shared
  /\ UNCHANGED <<rows, pointer, pubs, reviewed, reviews>>

\* Redis forgets after an hour; a worker restarts.
Expire ==
  /\ shared # Cold
  /\ shared' = [shared EXCEPT !.active = None] \/ \E v \in Versions : shared' = [shared EXCEPT !.byId[v] = None]
  /\ UNCHANGED <<rows, pointer, pubs, local, reqs, reviewed, reviews>>
Restart(w) ==
  /\ local' = [local EXCEPT ![w] = Cold] /\ reqs' = [reqs EXCEPT ![w] = Calm]
  /\ pubs' = [a \in Admins |-> IF pubs[a].on = w THEN Free ELSE pubs[a]]
  /\ UNCHANGED <<rows, pointer, shared, reviewed, reviews>>

People == \E v \in Versions : CreateDraft(v) \/ ReplaceMapped(v) \/ \E j \in Journeys, ok \in BOOLEAN : ReviewJourney(v, j, ok)
Publish(a) == (\E v \in Versions : PreparePublish(a, v)) \/ Retire(a) \/ Commit(a) \/ Warm(a)
Request(w) == ReadActive(w) \/ LoadActive(w) \/ Answer(w) \/ \E v \in Versions : ReadPinned(w, v)
PublicationNext == People \/ Expire \/ (\E a \in Admins : Publish(a)) \/ \E w \in Workers : Request(w) \/ Restart(w)

PublicationSpec == PublicationInit /\ [][PublicationNext]_publicationVars

-----------------------------------------------------------------------------
Held == {shared.active} \cup Range(shared.byId) \cup {reqs[w].bundle : w \in Workers}
        \cup UNION {{local[w].active} \cup Range(local[w].byId) : w \in Workers}

(***************************************************************************)
(* Whatever a worker hands out, from whichever cache, is a version that    *)
(* was published, byte for byte as it was published, and each journey in   *)
(* it was approved by a person with exactly that content, however mapping, *)
(* review, publication and caching interleave (service.ts, cache.ts,       *)
(* postgres.ts publish and replaceMappedCatalog).                          *)
(***************************************************************************)
ServedIsReviewed ==
  \A b \in Held \ {None} :
    /\ Readable(b.version) /\ b = rows[b.version].bundle
    /\ \A j \in DOMAIN b.journeys : <<j, b.journeys[j]>> \in reviewed
=============================================================================
