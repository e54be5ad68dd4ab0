----------------------------- MODULE CatalogProofs -----------------------------
(***************************************************************************)
(* Only reviewed content is served, for any number of versions, journeys,  *)
(* workers and administrators, and whatever the caches lose; and what the  *)
(* browser accepts it can run safely, for any catalogs, pins and keys.     *)
(***************************************************************************)
EXTENDS CatalogPublication, CatalogContract, TurnAuthority, TLAPS

Statuses == {"none", "draft", "review", "published", "retired"}
JourneyRow == [content : {0} \cup Contents, approved : {0} \cup Contents]
Compilation == [version : {0} \cup Versions, journeys : {<<>>} \cup UNION {[S -> {0} \cup Contents] : S \in SUBSET Journeys}]
VersionRow == [status : Statuses, journeys : [Journeys -> JourneyRow], bundle : Compilation]
Publishing == [at : {"free", "stored", "retired", "committed"}, on : {"none"} \cup Workers, version : {0} \cup Versions,
               bundle : Compilation, retires : SUBSET Versions]
Cache == [active : Compilation, byId : [Versions -> Compilation]]
Reading == [version : {0} \cup Versions, bundle : Compilation]

Typed ==
  /\ rows \in [Versions -> VersionRow] /\ pointer \in {0} \cup Versions
  /\ pubs \in [Admins -> Publishing]
  /\ local \in [Workers -> Cache] /\ shared \in Cache
  /\ reqs \in [Workers -> Reading]

\* An approval in a row was once given by a person for that content.
ApprovalsAreReal ==
  \A v \in Versions, j \in Journeys :
    LET c == rows[v].journeys[j].approved IN c # 0 => <<j, c>> \in reviewed
Sourced(b) == \A j \in DOMAIN b.journeys : <<j, b.journeys[j]>> \in reviewed

\* The bundle of a row is there only after it was published.
RowOK(v) == rows[v].bundle # None => Readable(v) /\ rows[v].bundle.version = v /\ Sourced(rows[v].bundle)
\* What a publication carries, and what holds at each point of it: the version is
\* still open when it is about to be committed, and it is the published one after.
PubOK(a) ==
  LET p == pubs[a]
  IN p.at # "free" =>
       /\ p.version \in Versions /\ p.bundle.version = p.version /\ Sourced(p.bundle)
       /\ p.at = "retired" => rows[p.version].status \in OpenStates /\ \A v \in p.retires : Readable(v)
       /\ p.at = "committed" => Readable(p.version) /\ p.bundle = rows[p.version].bundle
\* One publication at a time is past its decision on a version.
OneDecides == \A a, b \in Admins : pubs[a].at = "retired" /\ pubs[b].at = "retired" /\ pubs[a].version = pubs[b].version => a = b
\* A bundle that is handed on is the one that was published.
Good(b) == b = None \/ (b.version \in Versions /\ Readable(b.version) /\ b = rows[b.version].bundle)
CacheOK(c) == Good(c.active) /\ \A v \in Versions : Good(c.byId[v])
CachesOK == CacheOK(shared) /\ \A w \in Workers : CacheOK(local[w]) /\ Good(reqs[w].bundle)

IInv ==
  /\ Typed /\ ApprovalsAreReal /\ OneDecides /\ CachesOK
  /\ \A v \in Versions : RowOK(v)
  /\ \A a \in Admins : PubOK(a)

-----------------------------------------------------------------------------

\* Empty entries have their types.
LEMMA NoneTyped == None \in Compilation /\ Cold \in Cache /\ Calm \in Reading /\ Free \in Publishing
  BY DEF None, Compilation, Cold, Cache, Calm, Reading, Free, Publishing

\* Rows that were published stay published as they were, and reviews are not forgotten.
Grows == /\ \A v \in Versions : Readable(v) => Readable(v)' /\ rows'[v].bundle = rows[v].bundle
         /\ reviewed \subseteq reviewed'

\* What is handed on stays what was published.
LEMMA GoodStays ==
  ASSUME Grows, NEW b, Good(b)
  PROVE  Good(b)'
  BY DEF Grows, Good

\* The caches stay good while nothing is served.
LEMMA CachesStay ==
  ASSUME Grows, CachesOK, UNCHANGED Serving
  PROVE  CachesOK'
  BY GoodStays DEF CachesOK, CacheOK, Serving

\* Reviewed content stays reviewed.
LEMMA SourcedStays ==
  ASSUME Grows, NEW b, Sourced(b)
  PROVE  Sourced(b)'
  BY DEF Grows, Sourced

\* Nothing is drafted, published or cached at the beginning.
LEMMA InitOK ==
  ASSUME PublicationInit
  PROVE  IInv
  <1>1. \A v \in Versions : Row("none") \in VersionRow
    BY NoneTyped DEF Row, VersionRow, Statuses, Missing, JourneyRow
  <1>2. Typed
    BY <1>1, NoneTyped DEF PublicationInit, Typed
  <1>3. ApprovalsAreReal /\ OneDecides
    BY DEF PublicationInit, ApprovalsAreReal, OneDecides, Row, Missing, Free
  <1>4. CachesOK
    BY DEF PublicationInit, CachesOK, CacheOK, Good, Cold, Calm
  <1>5. (\A v \in Versions : RowOK(v)) /\ \A a \in Admins : PubOK(a)
    BY DEF PublicationInit, RowOK, PubOK, Row, Free
  <1> QED BY <1>2, <1>3, <1>4, <1>5 DEF IInv

-----------------------------------------------------------------------------
(* Drafts *)

\* A version that was never published becomes another open one.
LEMMA OpenRowChanges ==
  ASSUME IInv, NEW v \in Versions, NEW r \in VersionRow, rows' = [rows EXCEPT ![v] = r],
         ~Readable(v), r.bundle = None, r.status \in OpenStates, reviewed \subseteq reviewed',
         \A j \in Journeys : r.journeys[j].approved # 0 => <<j, r.journeys[j].approved>> \in reviewed',
         UNCHANGED <<pointer, pubs, Serving>>
  PROVE  IInv'
  <1>1. rows' \in [Versions -> VersionRow] /\ rows'[v] = r /\ \A u \in Versions \ {v} : rows'[u] = rows[u]
    BY DEF IInv, Typed
  <1>2. Grows
    BY <1>1 DEF Grows, Readable
  <1>3. Typed'
    BY <1>1 DEF IInv, Typed, Serving
  <1>4. ApprovalsAreReal'
    BY <1>1 DEF IInv, ApprovalsAreReal
  <1>5. OneDecides'
    BY DEF IInv, OneDecides
  <1>6. CachesOK'
    BY <1>2, CachesStay DEF IInv
  <1>7. ASSUME NEW u \in Versions
        PROVE  RowOK(u)'
    BY <1>1, <1>2, SourcedStays DEF IInv, RowOK, Readable
  <1>8. ASSUME NEW a \in Admins
        PROVE  PubOK(a)'
    <2> DEFINE p == pubs[a]
    <2>0. PubOK(a) /\ p' = p /\ p \in Publishing
      BY DEF IInv, Typed
    <2>1. CASE p.at = "free"
      BY <2>0, <2>1 DEF PubOK
    <2>2. CASE p.at # "free"
      <3>1. p.version \in Versions /\ p.bundle.version = p.version /\ Sourced(p.bundle)'
        BY <1>2, <2>0, <2>2, SourcedStays DEF PubOK
      <3>2. p.at = "retired" => rows'[p.version].status \in OpenStates
        BY <1>1, <2>0, <2>2, <3>1 DEF PubOK
      <3>3. p.at = "retired" => \A u \in p.retires : Readable(u)'
        BY <1>2, <2>0, <2>2 DEF PubOK, Grows, Publishing
      <3>4. p.at = "committed" => Readable(p.version)' /\ p.bundle = rows'[p.version].bundle
        BY <1>2, <2>0, <2>2, <3>1 DEF PubOK, Grows
      <3> QED BY <2>0, <3>1, <3>2, <3>3, <3>4 DEF PubOK
    <2> QED BY <2>1, <2>2
  <1> QED BY <1>3, <1>4, <1>5, <1>6, <1>7, <1>8 DEF IInv

\* Drafts, mapper runs and reviews.
LEMMA PeopleOK ==
  ASSUME IInv, People
  PROVE  IInv'
  <1>0. rows \in [Versions -> VersionRow]
    BY DEF IInv, Typed
  <1>1. ASSUME NEW v \in Versions, CreateDraft(v)
        PROVE  IInv'
    <2> DEFINE js == IF pointer # 0 /\ rows[pointer].status = "published" THEN rows[pointer].journeys ELSE Row("draft").journeys
               r == [Row("draft") EXCEPT !.journeys = js]
    <2>1. pointer # 0 => pointer \in Versions
      BY DEF IInv, Typed
    <2>2. js \in [Journeys -> JourneyRow]
      BY <1>0, <2>1 DEF VersionRow, Row, Missing, JourneyRow
    <2>3. \A j \in Journeys : js[j].approved # 0 => <<j, js[j].approved>> \in reviewed
      BY <2>1 DEF IInv, ApprovalsAreReal, Row, Missing
    <2>4. rows' = [rows EXCEPT ![v] = r]
      BY <1>1 DEF CreateDraft
    <2> HIDE DEF js
    <2>5. r = [status |-> "draft", journeys |-> js, bundle |-> None]
      BY DEF Row
    <2>6. r \in VersionRow /\ r.bundle = None /\ r.status \in OpenStates
      BY <2>2, <2>5, NoneTyped DEF VersionRow, Statuses, OpenStates
    <2>7. ~Readable(v)
      BY <1>1 DEF CreateDraft, Readable
    <2> QED BY <1>1, <2>3, <2>4, <2>5, <2>6, <2>7, OpenRowChanges DEF CreateDraft
  <1>2. ASSUME NEW v \in Versions, rows[v].status \in OpenStates
        PROVE  ~Readable(v) /\ rows[v].bundle = None
    BY <1>2 DEF IInv, RowOK, Readable, OpenStates
  <1>3. ASSUME NEW v \in Versions, ReplaceMapped(v)
        PROVE  IInv'
    <2>1. PICK new \in [Journeys -> {0} \cup Contents] :
            rows' = [rows EXCEPT ![v].status = "review", ![v].journeys = [j \in Journeys |-> Mapped(rows[v].journeys[j], new[j])]]
      BY <1>3 DEF ReplaceMapped
    <2> DEFINE js == [j \in Journeys |-> Mapped(rows[v].journeys[j], new[j])]
               r == [rows[v] EXCEPT !.status = "review", !.journeys = js]
    <2>2. js \in [Journeys -> JourneyRow]
      BY DEF Mapped, JourneyRow
    <2>3. \A j \in Journeys : js[j].approved # 0 => <<j, js[j].approved>> \in reviewed
      BY DEF IInv, ApprovalsAreReal, Mapped
    <2> HIDE DEF js
    <2>4. rows' = [rows EXCEPT ![v] = r]
      BY <1>0, <2>1 DEF VersionRow, js
    <2>5. r \in VersionRow /\ r.bundle = None /\ r.status \in OpenStates /\ r.journeys = js
      BY <1>0, <1>2, <1>3, <2>2 DEF VersionRow, Statuses, OpenStates, ReplaceMapped
    <2>6. rows[v].status \in OpenStates /\ reviewed' = reviewed /\ UNCHANGED <<pointer, pubs, Serving>>
      BY <1>3 DEF ReplaceMapped
    <2> HIDE DEF r
    <2> QED BY <1>2, <2>3, <2>4, <2>5, <2>6, OpenRowChanges
  <1>4. ASSUME NEW v \in Versions, NEW j \in Journeys, NEW approve \in BOOLEAN, ReviewJourney(v, j, approve)
        PROVE  IInv'
    <2> DEFINE c == rows[v].journeys[j].content
               decision == IF approve THEN c ELSE 0
               js == [rows[v].journeys EXCEPT ![j].approved = decision]
               r == [rows[v] EXCEPT !.journeys = js]
    <2>1. rows[v].journeys \in [Journeys -> JourneyRow] /\ c \in {0} \cup Contents
      BY <1>0 DEF VersionRow, JourneyRow
    <2>2. js \in [Journeys -> JourneyRow] /\ js[j].approved = decision /\ \A i \in Journeys \ {j} : js[i] = rows[v].journeys[i]
      BY <2>1 DEF JourneyRow
    <2>3. reviewed' = IF approve THEN reviewed \cup {<<j, c>>} ELSE reviewed
      BY <1>4 DEF ReviewJourney
    <2>4. \A i \in Journeys : js[i].approved # 0 => <<i, js[i].approved>> \in reviewed'
      BY <2>2, <2>3 DEF IInv, ApprovalsAreReal
    <2>5. rows' = [rows EXCEPT ![v] = r]
      BY <1>0, <1>4 DEF VersionRow, ReviewJourney
    <2> HIDE DEF js
    <2>6. r \in VersionRow /\ r.bundle = None /\ r.status \in OpenStates /\ r.journeys = js
      BY <1>0, <1>2, <1>4, <2>2 DEF VersionRow, ReviewJourney
    <2> QED BY <1>2, <1>4, <2>3, <2>4, <2>5, <2>6, OpenRowChanges DEF ReviewJourney
  <1> QED BY <1>1, <1>3, <1>4 DEF People

-----------------------------------------------------------------------------
(* Publishing *)

\* The rows stay as they are.
LEMMA RowsStay ==
  ASSUME IInv, UNCHANGED <<rows, pointer, reviewed>>,
         pubs' \in [Admins -> Publishing], OneDecides', \A a \in Admins : PubOK(a)',
         local' \in [Workers -> Cache], shared' \in Cache, reqs' \in [Workers -> Reading], CachesOK'
  PROVE  IInv'
  <1>1. Typed' /\ ApprovalsAreReal'
    BY DEF IInv, Typed, ApprovalsAreReal
  <1>2. \A v \in Versions : RowOK(v)'
    BY DEF IInv, RowOK, Readable, Sourced
  <1> QED BY <1>1, <1>2 DEF IInv

\* Steps that leave the rows alone.
LEMMA SameRowsGrow ==
  ASSUME UNCHANGED <<rows, reviewed>>
  PROVE  Grows
  BY DEF Grows, Readable

\* One publication goes on; nobody else has decided on the same version.
LEMMA PubChanges ==
  ASSUME IInv, NEW a \in Admins, NEW p \in Publishing, pubs' = [pubs EXCEPT ![a] = p], UNCHANGED <<rows, reviewed>>,
         p.at = "retired" => \A b \in Admins \ {a} : ~(pubs[b].at = "retired" /\ pubs[b].version = p.version),
         p.at # "free" =>
           /\ p.version \in Versions /\ p.bundle.version = p.version /\ Sourced(p.bundle)
           /\ p.at = "retired" => rows[p.version].status \in OpenStates /\ \A v \in p.retires : Readable(v)
           /\ p.at = "committed" => Readable(p.version) /\ p.bundle = rows[p.version].bundle
  PROVE  pubs' \in [Admins -> Publishing] /\ OneDecides' /\ \A b \in Admins : PubOK(b)'
  <1>1. pubs' \in [Admins -> Publishing] /\ pubs'[a] = p /\ \A b \in Admins \ {a} : pubs'[b] = pubs[b]
    BY DEF IInv, Typed
  <1>2. OneDecides'
    BY <1>1 DEF IInv, OneDecides
  <1>3. \A b \in Admins : PubOK(b)'
    BY <1>1 DEF IInv, PubOK, Readable, Sourced
  <1> QED BY <1>1, <1>2, <1>3

\* What compile() takes into a bundle is what people approved (service.ts).
LEMMA CompiledOK ==
  ASSUME IInv, NEW v \in Versions
  PROVE  Compiled(v) \in Compilation /\ Compiled(v).version = v /\ Sourced(Compiled(v))
  <1> DEFINE S == {i \in Journeys : Approved(rows[v].journeys[i])}
             f == [j \in S |-> rows[v].journeys[j].content]
  <1>1. \A j \in S : f[j] \in {0} \cup Contents /\ <<j, f[j]>> \in reviewed
    BY DEF IInv, Typed, VersionRow, JourneyRow, ApprovalsAreReal, Approved
  <1>2. f \in [S -> {0} \cup Contents] /\ S \in SUBSET Journeys
    BY <1>1
  <1> HIDE DEF S
  <1>3. f \in UNION {[T -> {0} \cup Contents] : T \in SUBSET Journeys}
    BY <1>2
  <1>4. Compiled(v) = [version |-> v, journeys |-> f]
    BY DEF Compiled, S
  <1>5. DOMAIN f = S
    OBVIOUS
  <1> HIDE DEF f
  <1> QED BY <1>1, <1>3, <1>4, <1>5 DEF Compilation, Sourced

\* The steps of a publication, from reading the rows to the commit.
LEMMA PublishOK ==
  ASSUME IInv, NEW a \in Admins, Publish(a)
  PROVE  IInv'
  <1>0. /\ pubs \in [Admins -> Publishing] /\ rows \in [Versions -> VersionRow] /\ local \in [Workers -> Cache]
        /\ shared \in Cache /\ reqs \in [Workers -> Reading] /\ PubOK(a) /\ pubs[a] \in Publishing
    BY DEF IInv, Typed
  <1>1. ASSUME NEW v \in Versions, PreparePublish(a, v)
        PROVE  IInv'
    <2>1. PICK w \in Workers : pubs' = [pubs EXCEPT ![a] = [at |-> "stored", on |-> w, version |-> v, bundle |-> Compiled(v), retires |-> {}]]
      BY <1>1 DEF PreparePublish
    <2> DEFINE p == [at |-> "stored", on |-> w, version |-> v, bundle |-> Compiled(v), retires |-> {}]
    <2>2. p \in Publishing
      BY CompiledOK DEF Publishing
    <2>3. UNCHANGED <<rows, pointer, reviewed, local, shared, reqs>>
      BY <1>1 DEF PreparePublish, Serving
    <2>4. pubs' \in [Admins -> Publishing] /\ OneDecides' /\ \A b \in Admins : PubOK(b)'
      BY <2>1, <2>2, <2>3, CompiledOK, PubChanges
    <2>5. CachesOK'
      BY <2>3, SameRowsGrow, CachesStay DEF IInv, Serving
    <2> QED BY <1>0, <2>3, <2>4, <2>5, RowsStay
  <1>2. CASE Retire(a)
    <2>1. UNCHANGED <<rows, pointer, reviewed, local, shared, reqs>>
      BY <1>2 DEF Retire, Serving
    <2>2. CachesOK'
      BY <2>1, SameRowsGrow, CachesStay DEF IInv, Serving
    <2>3. CASE MayPublish(pubs[a].version)
      <3> DEFINE old == {v \in Versions : rows[v].status = "published"}
                 p == [pubs[a] EXCEPT !.at = "retired", !.retires = old]
      <3>1. pubs' = [pubs EXCEPT ![a] = p]
        BY <1>0, <1>2, <2>3 DEF Retire, Publishing
      <3>2. p \in Publishing /\ p.version = pubs[a].version /\ p.bundle = pubs[a].bundle
        BY <1>0 DEF Publishing
      <3>3. pubs[a].version \in Versions /\ p.bundle.version = p.version /\ Sourced(p.bundle)
        BY <1>0, <1>2, <3>2 DEF PubOK, Retire
      <3>4. rows[p.version].status \in OpenStates /\ \A v \in p.retires : Readable(v)
        BY <1>0, <2>3, <3>2 DEF MayPublish, Readable, Publishing
      <3>5. \A b \in Admins : ~(pubs[b].at = "retired" /\ pubs[b].version = p.version)
        BY <1>2, <3>2 DEF Retire, Locked
      <3>6. p.at = "retired"
        BY <1>0 DEF Publishing
      <3> HIDE DEF p
      <3>7. pubs' \in [Admins -> Publishing] /\ OneDecides' /\ \A b \in Admins : PubOK(b)'
        BY <2>1, <3>1, <3>2, <3>3, <3>4, <3>5, <3>6, PubChanges
      <3> QED BY <1>0, <2>1, <2>2, <3>7, RowsStay
    <2>4. CASE ~MayPublish(pubs[a].version)
      <3>1. pubs' = [pubs EXCEPT ![a] = Free] /\ Free.at = "free"
        BY <1>2, <2>4 DEF Retire, Free
      <3>2. pubs' \in [Admins -> Publishing] /\ OneDecides' /\ \A b \in Admins : PubOK(b)'
        BY <2>1, <3>1, NoneTyped, PubChanges
      <3> QED BY <1>0, <2>1, <2>2, <3>2, RowsStay
    <2> QED BY <2>3, <2>4
  <1>3. CASE Commit(a)
    <2>0. PICK p \in Publishing : p = pubs[a]
      BY <1>0
    <2>1. /\ p.at = "retired" /\ p.version \in Versions /\ p.bundle.version = p.version /\ Sourced(p.bundle)
          /\ rows[p.version].status \in OpenStates /\ \A v \in p.retires : Readable(v)
          /\ p.bundle \in Compilation /\ p.retires \in SUBSET Versions
      BY <1>0, <1>3, <2>0 DEF PubOK, Commit, Publishing
    <2>2. /\ rows' = [v \in Versions |->
                IF v = p.version THEN [rows[v] EXCEPT !.status = "published", !.bundle = p.bundle]
                ELSE IF v \in p.retires THEN [rows[v] EXCEPT !.status = "retired"] ELSE rows[v]]
          /\ pointer' = p.version /\ pubs' = [pubs EXCEPT ![a].at = "committed"]
          /\ UNCHANGED <<local, shared, reqs, reviewed>>
      BY <1>3, <2>0 DEF Commit, Serving
    <2>3. ~Readable(p.version) /\ p.version \notin p.retires
      BY <2>1 DEF Readable, OpenStates
    <2>4. ASSUME NEW v \in Versions
          PROVE  /\ rows'[v] \in VersionRow /\ rows'[v].journeys = rows[v].journeys
                 /\ v = p.version => rows'[v].status = "published" /\ rows'[v].bundle = p.bundle
                 /\ v # p.version => rows'[v].bundle = rows[v].bundle
                 /\ v # p.version /\ v \in p.retires => rows'[v].status = "retired"
                 /\ v # p.version /\ v \notin p.retires => rows'[v] = rows[v]
      <3>1. rows[v] \in VersionRow
        BY <1>0
      <3>2. CASE v = p.version
        <4>1. rows'[v] = [rows[v] EXCEPT !.status = "published", !.bundle = p.bundle]
          BY <2>2, <3>2
        <4> QED BY <2>1, <3>1, <3>2, <4>1 DEF VersionRow, Statuses
      <3>3. CASE v # p.version /\ v \in p.retires
        <4>1. rows'[v] = [rows[v] EXCEPT !.status = "retired"]
          BY <2>2, <3>3
        <4> QED BY <3>1, <3>3, <4>1 DEF VersionRow, Statuses
      <3>4. CASE v # p.version /\ v \notin p.retires
        BY <2>2, <3>1, <3>4
      <3> QED BY <3>2, <3>3, <3>4
    <2>5. rows' \in [Versions -> VersionRow]
      BY <2>2, <2>4
    <2> DEFINE q == [p EXCEPT !.at = "committed"]
    <2>6. q \in Publishing /\ q.at = "committed" /\ q.version = p.version /\ q.bundle = p.bundle /\ pubs' = [pubs EXCEPT ![a] = q]
      BY <1>0, <2>0, <2>2 DEF Publishing
    <2> HIDE DEF q
    <2>7. pubs' \in [Admins -> Publishing] /\ pubs'[a] = q /\ \A b \in Admins \ {a} : pubs'[b] = pubs[b]
      BY <1>0, <2>6
    <2>8. Grows
      BY <2>2, <2>3, <2>4 DEF Grows, Readable
    <2>9. Typed'
      BY <1>0, <2>1, <2>2, <2>5, <2>7 DEF IInv, Typed
    <2>10. ApprovalsAreReal'
      <3> SUFFICES ASSUME NEW v \in Versions, NEW j \in Journeys, rows'[v].journeys[j].approved # 0
                   PROVE  <<j, rows'[v].journeys[j].approved>> \in reviewed'
        BY DEF ApprovalsAreReal
      <3>1. rows'[v].journeys = rows[v].journeys /\ reviewed' = reviewed
        BY <2>2, <2>4
      <3>2. ApprovalsAreReal
        BY DEF IInv
      <3> QED BY <3>1, <3>2 DEF ApprovalsAreReal
    <2>11. OneDecides'
      BY <2>6, <2>7 DEF IInv, OneDecides
    <2>12. CachesOK'
      BY <2>2, <2>8, CachesStay DEF IInv, Serving
    <2>13. ASSUME NEW v \in Versions
           PROVE  RowOK(v)'
      <3>1. CASE v = p.version
        BY <2>1, <2>4, <2>8, <3>1, SourcedStays DEF RowOK, Readable
      <3>2. CASE v # p.version
        <4>1. RowOK(v) /\ rows'[v].bundle = rows[v].bundle
          BY <2>4, <3>2 DEF IInv
        <4>2. rows[v].bundle # None => Readable(v)' /\ Sourced(rows[v].bundle)'
          BY <2>8, <4>1, SourcedStays DEF RowOK, Grows
        <4> QED BY <4>1, <4>2 DEF RowOK, Sourced
      <3> QED BY <3>1, <3>2
    <2>14. ASSUME NEW b \in Admins
           PROVE  PubOK(b)'
      <3>1. CASE b = a
        <4>1. q.version \in Versions /\ q.bundle.version = q.version /\ Sourced(q.bundle)'
          BY <2>1, <2>6, <2>8, SourcedStays
        <4>2. Readable(q.version)' /\ q.bundle = rows'[q.version].bundle
          BY <2>1, <2>4, <2>6 DEF Readable
        <4> QED BY <2>6, <2>7, <3>1, <4>1, <4>2 DEF PubOK
      <3>2. CASE b # a
        <4> DEFINE o == pubs[b]
        <4>1. pubs'[b] = o /\ PubOK(b) /\ o \in Publishing
          BY <1>0, <2>7, <3>2 DEF IInv
        <4>2. CASE o.at = "free"
          BY <4>1, <4>2 DEF PubOK
        <4>3. CASE o.at # "free"
          <5>1. o.version \in Versions /\ o.bundle.version = o.version /\ Sourced(o.bundle)'
            BY <2>8, <4>1, <4>3, SourcedStays DEF PubOK
          <5>2. o.at = "retired" => rows'[o.version].status \in OpenStates
            <6> SUFFICES ASSUME o.at = "retired" PROVE rows'[o.version].status \in OpenStates
              OBVIOUS
            <6>1. o.version # p.version
              BY <2>0, <2>1, <3>2 DEF IInv, OneDecides
            <6>2. rows[o.version].status \in OpenStates
              BY <4>1, <4>3 DEF PubOK
            <6>3. o.version \notin p.retires
              BY <2>1, <6>2 DEF Readable, OpenStates
            <6> QED BY <2>4, <5>1, <6>1, <6>2, <6>3
          <5>3. o.at = "retired" => \A v \in o.retires : Readable(v)'
            BY <2>8, <4>1, <4>3 DEF PubOK, Grows, Publishing
          <5>4. o.at = "committed" => Readable(o.version)' /\ o.bundle = rows'[o.version].bundle
            BY <2>8, <4>1, <4>3, <5>1 DEF PubOK, Grows
          <5> QED BY <4>1, <5>1, <5>2, <5>3, <5>4 DEF PubOK
        <4> QED BY <4>2, <4>3
      <3> QED BY <3>1, <3>2
    <2> QED BY <2>9, <2>10, <2>11, <2>12, <2>13, <2>14 DEF IInv
  <1>4. CASE Warm(a)
    <2> DEFINE b == pubs[a].bundle
               w == pubs[a].on
    <2>1. UNCHANGED <<rows, pointer, reviewed, reqs>> /\ pubs' = [pubs EXCEPT ![a] = Free] /\ Free.at = "free"
      BY <1>4 DEF Warm, Free
    <2>2. pubs' \in [Admins -> Publishing] /\ OneDecides' /\ \A c \in Admins : PubOK(c)'
      BY <2>1, NoneTyped, PubChanges
    <2>3. b \in Compilation /\ b.version \in Versions /\ Good(b)
      BY <1>0, <1>4 DEF Warm, PubOK, Good, Publishing
    <2>4. local' = [local EXCEPT ![w] = [active |-> b, byId |-> [local[w].byId EXCEPT ![b.version] = b]]]
      BY <1>4 DEF Warm
    <2>5. PICK byId \in BOOLEAN, active \in BOOLEAN :
            shared' = [active |-> IF active THEN b ELSE shared.active,
                       byId |-> IF byId THEN [shared.byId EXCEPT ![b.version] = b] ELSE shared.byId]
      BY <1>4 DEF Warm
    <2>6. \A c : Good(c) => Good(c)'
      BY <2>1, SameRowsGrow, GoodStays
    <2> HIDE DEF b, w
    <2>7. shared' \in Cache /\ CacheOK(shared)'
      BY <1>0, <2>3, <2>5, <2>6 DEF IInv, CachesOK, CacheOK, Cache
    <2>8. ASSUME NEW u \in Workers
          PROVE  local'[u] \in Cache /\ CacheOK(local[u])'
      <3>1. CASE u = w
        BY <1>0, <2>3, <2>4, <2>6, <3>1 DEF IInv, CachesOK, CacheOK, Cache
      <3>2. CASE u # w
        BY <1>0, <2>4, <2>6, <3>2 DEF IInv, CachesOK, CacheOK, Cache
      <3> QED BY <3>1, <3>2
    <2>9. local' \in [Workers -> Cache]
      BY <1>0, <2>4, <2>8
    <2>10. CachesOK'
      BY <2>1, <2>6, <2>7, <2>8 DEF IInv, CachesOK
    <2> QED BY <1>0, <2>1, <2>2, <2>7, <2>9, <2>10, RowsStay
  <1> QED BY <1>1, <1>2, <1>3, <1>4 DEF Publish

-----------------------------------------------------------------------------
(* Serving *)

\* Only the caches and the requests change.
LEMMA ServingChanges ==
  ASSUME IInv, UNCHANGED <<rows, pointer, pubs, reviewed>>,
         local' \in [Workers -> Cache], shared' \in Cache, reqs' \in [Workers -> Reading],
         CacheOK(shared'), \A w \in Workers : CacheOK(local'[w]) /\ Good(reqs'[w].bundle)
  PROVE  IInv'
  <1>1. \A b : Good(b) => Good(b)'
    BY SameRowsGrow, GoodStays
  <1>2. CachesOK'
    BY <1>1 DEF CachesOK, CacheOK
  <1>3. pubs' \in [Admins -> Publishing] /\ OneDecides' /\ \A a \in Admins : PubOK(a)'
    BY DEF IInv, Typed, OneDecides, PubOK, Readable, Sourced
  <1> QED BY <1>2, <1>3, RowsStay

\* A good bundle takes its place in a cache.
LEMMA CachePut ==
  ASSUME NEW c \in Cache, CacheOK(c), NEW b \in Compilation, Good(b)
  PROVE  /\ [c EXCEPT !.active = b] \in Cache /\ CacheOK([c EXCEPT !.active = b])
         /\ \A v \in Versions : [c EXCEPT !.byId[v] = b] \in Cache /\ CacheOK([c EXCEPT !.byId[v] = b])
  <1>1. [c EXCEPT !.active = b] \in Cache /\ CacheOK([c EXCEPT !.active = b])
    BY DEF Cache, CacheOK
  <1>2. ASSUME NEW v \in Versions
        PROVE  [c EXCEPT !.byId[v] = b] \in Cache /\ CacheOK([c EXCEPT !.byId[v] = b])
    <2> DEFINE m == [c.byId EXCEPT ![v] = b]
    <2>1. m \in [Versions -> Compilation] /\ \A u \in Versions : Good(m[u])
      BY DEF Cache, CacheOK
    <2>2. [c EXCEPT !.byId[v] = b] = [c EXCEPT !.byId = m]
      BY DEF Cache
    <2> HIDE DEF m
    <2> QED BY <2>1, <2>2 DEF Cache, CacheOK
  <1> QED BY <1>1, <1>2

\* Empty caches are good.
LEMMA NoneGood == Good(None) /\ CacheOK(Cold)
  BY DEF Good, CacheOK, Cold

\* What bundle() finds is what was published, and so is what it remembers.
LEMMA BundleOK ==
  ASSUME IInv, NEW w \in Workers, NEW v \in Versions, NEW b, Bundle(w, v, b)
  PROVE  /\ b \in Compilation /\ Good(b)
         /\ local' \in [Workers -> Cache] /\ \A u \in Workers : CacheOK(local'[u])
         /\ shared' \in Cache /\ CacheOK(shared')
  <1>0. /\ local \in [Workers -> Cache] /\ shared \in Cache /\ rows \in [Versions -> VersionRow]
        /\ \A u \in Workers : CacheOK(local[u])
        /\ CacheOK(shared) /\ RowOK(v)
    BY DEF IInv, Typed, CachesOK
  <1>1. \/ b = local[w].byId[v] /\ UNCHANGED Caches
        \/ b = shared.byId[v] /\ local' = [local EXCEPT ![w].byId[v] = b] /\ UNCHANGED shared
        \/ /\ Readable(v) /\ b = rows[v].bundle /\ local' = [local EXCEPT ![w].byId[v] = b]
           /\ shared' = [shared EXCEPT !.byId[v] = b] \/ UNCHANGED shared
    BY DEF Bundle
  <1>2. b \in Compilation /\ Good(b)
    <2>1. CASE b = local[w].byId[v]
      BY <1>0, <2>1 DEF Cache, CacheOK
    <2>2. CASE b = shared.byId[v]
      BY <1>0, <2>2 DEF Cache, CacheOK
    <2>3. CASE Readable(v) /\ b = rows[v].bundle
      BY <1>0, <2>3 DEF VersionRow, RowOK, Good
    <2> QED BY <1>1, <2>1, <2>2, <2>3
  <1>3. local' = local \/ local' = [local EXCEPT ![w].byId[v] = b]
    BY <1>1 DEF Caches
  <1>4. shared' = shared \/ shared' = [shared EXCEPT !.byId[v] = b]
    BY <1>1 DEF Caches
  <1>5. local' \in [Workers -> Cache] /\ \A u \in Workers : CacheOK(local'[u])
    <2>1. CASE local' = local
      BY <1>0, <2>1
    <2>2. CASE local' = [local EXCEPT ![w].byId[v] = b]
      <3> DEFINE c == [local[w] EXCEPT !.byId[v] = b]
      <3>1. c \in Cache /\ CacheOK(c)
        BY <1>0, <1>2, CachePut
      <3>2. local' = [local EXCEPT ![w] = c]
        BY <1>0, <2>2 DEF Cache
      <3> HIDE DEF c
      <3> QED BY <1>0, <3>1, <3>2
    <2> QED BY <1>3, <2>1, <2>2
  <1>6. shared' \in Cache /\ CacheOK(shared')
    <2> DEFINE c == [shared EXCEPT !.byId[v] = b]
    <2>1. c \in Cache /\ CacheOK(c)
      BY <1>0, <1>2, CachePut
    <2>2. shared' = shared \/ shared' = c
      BY <1>4
    <2> HIDE DEF c
    <2> QED BY <1>0, <2>1, <2>2
  <1> QED BY <1>2, <1>5, <1>6

\* A request for the active bundle, through local and shared cache to the store.
LEMMA RequestOK ==
  ASSUME IInv, NEW w \in Workers, Request(w)
  PROVE  IInv'
  <1>0. /\ local \in [Workers -> Cache] /\ shared \in Cache /\ reqs \in [Workers -> Reading]
        /\ \A u \in Workers : CacheOK(local[u]) /\ Good(reqs[u].bundle)
        /\ CacheOK(shared) /\ pointer \in {0} \cup Versions
    BY DEF IInv, Typed, CachesOK
  <1>1. ASSUME NEW b \in Compilation, Good(b), local' = [local EXCEPT ![w].active = b]
        PROVE  local' \in [Workers -> Cache] /\ \A u \in Workers : CacheOK(local'[u])
    <2> DEFINE c == [local[w] EXCEPT !.active = b]
    <2>1. c \in Cache /\ CacheOK(c)
      BY <1>0, <1>1, CachePut
    <2>2. local' = [local EXCEPT ![w] = c]
      BY <1>0, <1>1 DEF Cache
    <2> HIDE DEF c
    <2> QED BY <1>0, <2>1, <2>2
  <1>2. ASSUME NEW r \in Reading, Good(r.bundle), reqs' = [reqs EXCEPT ![w] = r]
        PROVE  reqs' \in [Workers -> Reading] /\ \A u \in Workers : Good(reqs'[u].bundle)
    BY <1>0, <1>2
  <1>3. CASE ReadActive(w)
    <2>1. CASE local' = [local EXCEPT ![w].active = shared.active] /\ UNCHANGED reqs
      <3>1. shared.active \in Compilation /\ Good(shared.active)
        BY <1>0 DEF Cache, CacheOK
      <3>2. UNCHANGED <<rows, pointer, pubs, shared, reviewed>>
        BY <1>3 DEF ReadActive
      <3>3. local' \in [Workers -> Cache] /\ \A u \in Workers : CacheOK(local'[u])
        BY <1>1, <2>1, <3>1
      <3> QED BY <1>0, <2>1, <3>2, <3>3, ServingChanges
    <2>2. CASE reqs' = [reqs EXCEPT ![w].version = pointer] /\ UNCHANGED local
      <3> DEFINE r == [reqs[w] EXCEPT !.version = pointer]
      <3>1. r \in Reading /\ Good(r.bundle)
        BY <1>0 DEF Reading
      <3>2. reqs' = [reqs EXCEPT ![w] = r]
        BY <1>0, <2>2 DEF Reading
      <3>3. UNCHANGED <<rows, pointer, pubs, shared, reviewed>>
        BY <1>3 DEF ReadActive
      <3> HIDE DEF r
      <3>4. reqs' \in [Workers -> Reading] /\ \A u \in Workers : Good(reqs'[u].bundle)
        BY <1>2, <3>1, <3>2
      <3> QED BY <1>0, <2>2, <3>3, <3>4, ServingChanges
    <2> QED BY <1>3, <2>1, <2>2 DEF ReadActive
  <1>4. CASE LoadActive(w)
    <2>1. PICK b \in Bundles : Bundle(w, reqs[w].version, b) /\ reqs' = [reqs EXCEPT ![w].bundle = b]
      BY <1>4 DEF LoadActive
    <2>2. reqs[w].version \in Versions
      BY <1>0, <1>4 DEF LoadActive, Reading
    <2>3. /\ b \in Compilation /\ Good(b)
          /\ local' \in [Workers -> Cache] /\ \A u \in Workers : CacheOK(local'[u])
          /\ shared' \in Cache /\ CacheOK(shared')
      BY <2>1, <2>2, BundleOK
    <2> DEFINE r == [reqs[w] EXCEPT !.bundle = b]
    <2>4. r \in Reading /\ Good(r.bundle)
      BY <1>0, <2>3 DEF Reading
    <2>5. reqs' = [reqs EXCEPT ![w] = r]
      BY <1>0, <2>1 DEF Reading
    <2> HIDE DEF r
    <2>6. reqs' \in [Workers -> Reading] /\ \A u \in Workers : Good(reqs'[u].bundle)
      BY <1>2, <2>4, <2>5
    <2>7. UNCHANGED <<rows, pointer, pubs, reviewed>>
      BY <1>4 DEF LoadActive
    <2> QED BY <2>3, <2>6, <2>7, ServingChanges
  <1>5. ASSUME NEW v \in Versions, ReadPinned(w, v)
        PROVE  IInv'
    <2>1. PICK b \in Bundles : Bundle(w, v, b)
      BY <1>5 DEF ReadPinned
    <2>2. UNCHANGED <<rows, pointer, pubs, reqs, reviewed>>
      BY <1>5 DEF ReadPinned
    <2> QED BY <1>0, <2>1, <2>2, BundleOK, ServingChanges
  <1>6. CASE Answer(w)
    <2>1. reqs[w].bundle \in Compilation /\ Good(reqs[w].bundle)
      BY <1>0 DEF Reading
    <2>2. /\ local' = [local EXCEPT ![w].active = reqs[w].bundle]
          /\ shared' = [shared EXCEPT !.active = reqs[w].bundle] \/ UNCHANGED shared
          /\ reqs' = [reqs EXCEPT ![w] = Calm] /\ UNCHANGED <<rows, pointer, pubs, reviewed>>
      BY <1>6 DEF Answer
    <2>3. local' \in [Workers -> Cache] /\ \A u \in Workers : CacheOK(local'[u])
      BY <1>1, <2>1, <2>2
    <2>4. shared' \in Cache /\ CacheOK(shared')
      BY <1>0, <2>1, <2>2, CachePut
    <2>5. Good(Calm.bundle)
      BY NoneGood DEF Calm
    <2>6. reqs' \in [Workers -> Reading] /\ \A u \in Workers : Good(reqs'[u].bundle)
      BY <1>2, <2>2, <2>5, NoneTyped
    <2> QED BY <2>2, <2>3, <2>4, <2>6, ServingChanges
  <1> QED BY <1>3, <1>4, <1>5, <1>6 DEF Request

\* A cache drops an entry.
LEMMA ExpireOK ==
  ASSUME IInv, Expire
  PROVE  IInv'
  <1>0. /\ local \in [Workers -> Cache] /\ shared \in Cache /\ reqs \in [Workers -> Reading]
        /\ \A u \in Workers : CacheOK(local[u]) /\ Good(reqs[u].bundle)
        /\ CacheOK(shared)
    BY DEF IInv, Typed, CachesOK
  <1>1. shared' \in Cache /\ CacheOK(shared')
    <2>1. CASE shared' = [shared EXCEPT !.active = None]
      BY <1>0, <2>1, NoneTyped, NoneGood, CachePut
    <2>2. ASSUME NEW v \in Versions, shared' = [shared EXCEPT !.byId[v] = None]
          PROVE  shared' \in Cache /\ CacheOK(shared')
      <3> DEFINE c == [shared EXCEPT !.byId[v] = None]
      <3>1. c \in Cache /\ CacheOK(c)
        BY <1>0, NoneTyped, NoneGood, CachePut
      <3>2. shared' = c
        BY <2>2
      <3> HIDE DEF c
      <3> QED BY <3>1, <3>2
    <2> QED BY <2>1, <2>2 DEF Expire
  <1>2. UNCHANGED <<rows, pointer, pubs, local, reqs, reviewed>>
    BY DEF Expire
  <1> QED BY <1>0, <1>1, <1>2, ServingChanges

\* A server process restarts.
LEMMA RestartOK ==
  ASSUME IInv, NEW w \in Workers, Restart(w)
  PROVE  IInv'
  <1>0. /\ local \in [Workers -> Cache] /\ shared \in Cache /\ reqs \in [Workers -> Reading]
        /\ pubs \in [Admins -> Publishing]
        /\ \A u \in Workers : CacheOK(local[u]) /\ Good(reqs[u].bundle)
        /\ CacheOK(shared)
    BY DEF IInv, Typed, CachesOK
  <1>1. /\ local' = [local EXCEPT ![w] = Cold] /\ reqs' = [reqs EXCEPT ![w] = Calm]
        /\ pubs' = [a \in Admins |-> IF pubs[a].on = w THEN Free ELSE pubs[a]]
        /\ UNCHANGED <<rows, pointer, shared, reviewed>>
    BY DEF Restart
  <1>2. \A b : Good(b) => Good(b)'
    BY <1>1, SameRowsGrow, GoodStays
  <1>3. Good(Calm.bundle)
    BY NoneGood DEF Calm
  <1>4. /\ local' \in [Workers -> Cache] /\ reqs' \in [Workers -> Reading] /\ shared' \in Cache
        /\ \A u \in Workers : CacheOK(local'[u]) /\ Good(reqs'[u].bundle)
    BY <1>0, <1>1, <1>3, NoneTyped, NoneGood
  <1>5. CachesOK'
    BY <1>0, <1>1, <1>2, <1>4 DEF CachesOK, CacheOK
  <1>6. pubs' \in [Admins -> Publishing]
    BY <1>0, <1>1, NoneTyped
  <1>7. \A a \in Admins : pubs'[a] = pubs[a] \/ pubs'[a].at = "free"
    BY <1>1 DEF Free
  <1>8. OneDecides'
    BY <1>7 DEF IInv, OneDecides
  <1>9. \A a \in Admins : PubOK(a)'
    BY <1>1, <1>7 DEF IInv, PubOK, Readable, Sourced
  <1> QED BY <1>1, <1>4, <1>5, <1>6, <1>8, <1>9, RowsStay

-----------------------------------------------------------------------------

\* The invariant is inductive.
LEMMA NextOK ==
  ASSUME IInv, [PublicationNext]_publicationVars
  PROVE  IInv'
  <1>1. CASE UNCHANGED publicationVars
    <2>1. UNCHANGED <<rows, pointer, pubs, reviewed>> /\ UNCHANGED <<local, shared, reqs>>
      BY <1>1 DEF publicationVars
    <2> QED BY <2>1, ServingChanges DEF IInv, Typed, CachesOK
  <1>2. CASE PublicationNext
    BY <1>2, PeopleOK, PublishOK, RequestOK, ExpireOK, RestartOK DEF PublicationNext
  <1> QED BY <1>1, <1>2

\* Whatever a worker hands out, from whichever cache, is a published version as
\* it was published, every journey of it approved by a person with exactly that
\* content (service.ts, cache.ts, postgres.ts), for any number of versions,
\* journeys, workers and administrators.
THEOREM OnlyReviewedIsServed ==
  PublicationSpec => []ServedIsReviewed
  <1>1. PublicationInit => IInv
    BY InitOK
  <1>2. IInv /\ [PublicationNext]_publicationVars => IInv'
    BY NextOK
  <1>3. IInv => ServedIsReviewed
    <2> SUFFICES ASSUME IInv, NEW b \in Held \ {None}
                 PROVE  /\ Readable(b.version) /\ b = rows[b.version].bundle
                        /\ \A j \in DOMAIN b.journeys : <<j, b.journeys[j]>> \in reviewed
      BY DEF ServedIsReviewed
    <2>1. Good(b)
      <3>1. \A c : c \in Cache /\ CacheOK(c) => \A x \in {c.active} \cup Range(c.byId) : Good(x)
        BY DEF Range, CacheOK, Cache
      <3>2. /\ local \in [Workers -> Cache] /\ shared \in Cache
            /\ \A u \in Workers : CacheOK(local[u]) /\ Good(reqs[u].bundle)
            /\ CacheOK(shared)
        BY DEF IInv, Typed, CachesOK
      <3>3. CASE b \in {shared.active} \cup Range(shared.byId)
        BY <3>1, <3>2, <3>3
      <3>4. CASE \E w \in Workers : b = reqs[w].bundle
        BY <3>2, <3>4
      <3>5. ASSUME NEW w \in Workers, b \in {local[w].active} \cup Range(local[w].byId)
            PROVE  Good(b)
        BY <3>1, <3>2, <3>5
      <3> QED BY <3>3, <3>4, <3>5 DEF Held
    <2>2. b.version \in Versions /\ Readable(b.version) /\ b = rows[b.version].bundle
      BY <2>1 DEF Good
    <2> QED BY <2>2 DEF IInv, RowOK, Sourced
  <1> QED BY <1>1, <1>2, <1>3, PTL DEF PublicationSpec

-----------------------------------------------------------------------------
\* What a page holds, and what the cache keeps, is an envelope; what it holds was
\* accepted when it was taken up, from the network or again from the cache.
Holds == client.at = "ready" => client.holds \in Envelopes /\ Accepted(client.holds.payload)
ContractInv == Holds /\ \A k \in DOMAIN cache : cache[k] \in Envelopes

\* Every step of an accepted workflow that the policy lets run can find its target.
LEMMA TargetFound ==
  ASSUME NEW c, Shaped(c), Accepted(c), NEW i \in DOMAIN c.journeys, NEW s \in DOMAIN c.journeys[i].steps,
         Allowed(c, c.journeys[i], s), c.journeys[i].steps[s].act \notin {"scroll", "keypress"}
  PROVE  TargetResolves(c, c.journeys[i].steps[s])
  <1> DEFINE j == c.journeys[i]
  <1> DEFINE n == j.steps[s]
  <1>1. ShapedStep(n) /\ DirectOk(c, j) /\ n.class \in {"direct", "resumable", "tool"}
    BY DEF Shaped, Accepted, Allowed
  <1>2. n.control = Nothing => TargetResolves(c, n)
    BY DEF TargetResolves
  <1>3. CASE n.class = "direct"
    <2>1. IF n.kind = "action" THEN n.act \in {"click", "fill", "select", "hover", "drag", "wait"} => TargetResolves(c, n)
          ELSE n.kind # "approval" => TargetResolves(c, n)
      BY <1>1, <1>3 DEF DirectOk, Walked
    <2> QED BY <1>1, <1>2, <2>1 DEF ShapedStep, ActionKinds
  <1>4. CASE n.class \in {"resumable", "tool"}
    BY <1>1, <1>2, <1>4 DEF Allowed, ShapedStep
  <1> QED BY <1>1, <1>3, <1>4

\* A tool an accepted step calls exists, is no riskier than the step, and asks first
\* when it writes (checkToolStepSafety, validateSdkCatalog).
LEMMA ToolAdmitted ==
  ASSUME NEW c, Shaped(c), Accepted(c), NEW i \in DOMAIN c.journeys, NEW s \in DOMAIN c.journeys[i].steps,
         Allowed(c, c.journeys[i], s), c.journeys[i].steps[s].class = "tool"
  PROVE  LET j == c.journeys[i]
             n == j.steps[s]
         IN /\ n.tool \in DOMAIN c.tools
            /\ c.tools[n.tool].risk =< RiskOf(j, s)
            /\ c.tools[n.tool].risk >= ReversibleWrite => Confirms(c, j, s)
  <1> DEFINE j == c.journeys[i]
  <1> DEFINE n == j.steps[s]
  <1> DEFINE t == c.tools[n.tool].risk
  <1>1. ShapedStep(n) /\ ToolStepsOk(c, j) /\ Named(c, j) /\ n.kind = "action" /\ n.act = "tool_call"
    BY DEF Shaped, Accepted, Allowed
  <1>2. n.tool \in DOMAIN c.tools
    BY <1>1 DEF Named, ShapedStep
  <1>3. t \in Nat /\ j.wrisk \in Nat /\ n.risk \in Nat
    BY <1>1, <1>2 DEF Shaped, ShapedStep, Read, Destructive
  <1>4. RiskOf(j, s) >= t
    BY <1>1 DEF ToolStepsOk, Walked
  <1>5. RiskOf(j, s) \in Nat
    BY <1>3 DEF RiskOf, LargerRisk
  <1>6. t >= ReversibleWrite => RiskOf(j, s) >= ReversibleWrite
    BY <1>3, <1>4, <1>5 DEF ReversibleWrite
  <1> HIDE DEF j, n, t
  <1>7. t =< RiskOf(j, s)
    BY <1>3, <1>4, <1>5
  <1> QED BY <1>2, <1>6, <1>7 DEF Confirms, j, n, t

\* Every module of an accepted profile is approved, safe to demonstrate and open to
\* the role of the catalog (checkDemoProfile, checkPublishable).
LEMMA ModulePlays ==
  ASSUME NEW c, Accepted(c), NEW m \in DOMAIN c.profile.modules
  PROVE  LET j == c.journeys[c.profile.modules[m]]
         IN j.demoSafe /\ j.state = "approved" /\ ("*" \notin j.roles => Runnable(c, j))
  <1> DEFINE j == c.journeys[c.profile.modules[m]]
  <1>1. c.profile.modules[m] \in DOMAIN c.journeys /\ j.state = "approved" /\ j.demoSafe
    BY DEF Accepted, ProfileOk
  <1>2. {c.role, "*"} \cap j.roles # {}
    BY <1>1 DEF Accepted, Publishable
  <1> QED BY <1>1, <1>2 DEF Runnable

\* A page begins with nothing.
LEMMA ContractInvInit == ContractInit => ContractInv
  BY DEF ContractInit, NoPage, ContractInv, Holds

\* Opening a catalog, from its source or from the cache, keeps it.
LEMMA ContractInvNext == ContractInv /\ [ContractNext]_contractVars => ContractInv'
  <1> SUFFICES ASSUME ContractInv, [ContractNext]_contractVars
               PROVE  ContractInv'
    OBVIOUS
  <1>1. CASE OpenCatalog
    BY <1>1 DEF OpenCatalog, ContractInv, Holds
  <1>2. CASE Lookup
    <2> DEFINE key == KeyOf(client.source)
    <2>1. CASE key \in DOMAIN cache /\ StillGood(cache[key]) /\ Ready(cache[key]) /\ UNCHANGED cache
      BY <2>1 DEF ContractInv, Holds, StillGood, Verified, Ready
    <2>2. CASE cache' = Restrict(cache, DOMAIN cache \ {key}) /\ client' = [client EXCEPT !.at = "fetch"]
      <3>1. client'.at # "ready"
        BY <1>2, <2>2 DEF Lookup
      <3>2. \A k \in DOMAIN cache' : k \in DOMAIN cache /\ cache'[k] = cache[k]
        BY <2>2 DEF Restrict
      <3> QED BY <3>1, <3>2 DEF ContractInv, Holds
    <2> QED BY <1>2, <2>1, <2>2 DEF Lookup
  <1>3. CASE Fetch
    <2>1. CASE client' = [at |-> "failed"] /\ UNCHANGED cache
      BY <2>1 DEF ContractInv, Holds
    <2>2. ASSUME NEW e \in Envelopes, Verified(e, client.pin), Ready(e), cache' = Put(KeyOf(client.source), e)
          PROVE  ContractInv'
      <3>1. Holds'
        BY <2>2 DEF Holds, Ready, Verified
      <3>2. \A k \in DOMAIN cache' : cache'[k] \in Envelopes
        BY <2>2 DEF Put, ContractInv
      <3> QED BY <3>1, <3>2 DEF ContractInv
    <2> QED BY <1>3, <2>1, <2>2 DEF Fetch
  <1>4. CASE Tick \/ UNCHANGED contractVars
    BY <1>4 DEF Tick, contractVars, ContractInv, Holds
  <1> QED BY <1>1, <1>2, <1>3, <1>4 DEF ContractNext

\* A page that is ready holds an envelope the contract accepts, whichever source,
\* pin, key and cached copy it came from (catalog.ts load, validateSdkCatalog).
THEOREM LoadedIsAccepted == ContractSpec => []ContractInv
  BY ContractInvInit, ContractInvNext, PTL DEF ContractSpec

\* What the browser loaded it can run: names resolve, targets are found, tools are
\* covered by the risk of their step (validation.ts against safety.ts and the
\* executor), for all envelopes, sources, pins and keys.
THEOREM WhatIsAcceptedRuns == ContractSpec => []AcceptedRuns
  <1>1. ContractInv => AcceptedRuns
    <2> SUFFICES ASSUME ContractInv, client.at = "ready"
                 PROVE  AcceptedRuns
      BY DEF AcceptedRuns
    <2> DEFINE c == client.holds.payload
    <2>1. Accepted(c) /\ Shaped(c)
      BY EnvelopesAssumption DEF ContractInv, Holds
    <2> HIDE DEF c
    <2>2. ASSUME NEW i \in DOMAIN c.journeys, NEW s \in {t \in DOMAIN c.journeys[i].steps : Allowed(c, c.journeys[i], t)}
          PROVE  LET j == c.journeys[i]
                     n == j.steps[s]
                 IN /\ n.act \notin {"scroll", "keypress"} => TargetResolves(c, n)
                    /\ n.class = "tool" => /\ n.tool \in DOMAIN c.tools
                                           /\ c.tools[n.tool].risk =< RiskOf(j, s)
                                           /\ c.tools[n.tool].risk >= ReversibleWrite => Confirms(c, j, s)
      BY <2>1, <2>2, TargetFound, ToolAdmitted
    <2>3. ASSUME NEW m \in DOMAIN c.profile.modules
          PROVE  LET j == c.journeys[c.profile.modules[m]]
                 IN j.demoSafe /\ j.state = "approved" /\ ("*" \notin j.roles => Runnable(c, j))
      BY <2>1, ModulePlays
    <2> QED BY <2>2, <2>3 DEF AcceptedRuns, c
  <1> QED BY <1>1, LoadedIsAccepted, PTL

-----------------------------------------------------------------------------
(* What a turn releases: TurnAuthority *)

Entries == [at : Screens, steps : Seq(Hops)]

\* A plan acts on what the catalog allows, and never while it asks.
PlanIsAllowed ==
  /\ plan.asks => ~plan.acts
  /\ plan.acts => plan.mode = "navigate" \/ (plan.mode \in Executes /\ plan.goal = Nowhere)
  /\ plan.acts /\ plan.mode = "navigate" => plan.journey = Nowhere
  /\ plan.journey # Nowhere => Executable(plan.journey) /\ plan.goal = Nowhere
  /\ plan.shows /\ plan.journey # Nowhere => pin.journeys[plan.journey].risk = "read"

\* What the search has in its queue: ways from the page, every step signed.
Joined(steps, s) ==
  /\ \A i \in 1 .. Len(steps) : SignedHop(steps[i])
  /\ \A i \in 1 .. Len(steps) - 1 : steps[i].target = steps[i + 1].source
  /\ steps # <<>> => steps[1].source = seen.source /\ steps[Len(steps)].target = s
  /\ steps = <<>> => s = seen.source
Trail(e) == Len(e.steps) =< MaxEdges /\ Joined(e.steps, e.at)
QueueIsSound == talk.at = "searching" => \A i \in 1 .. Len(search.queue) : Trail(search.queue[i])
RouteIsSound ==
  search.route # <<>> =>
    /\ Len(search.route) \in 1 .. MaxEdges /\ Joined(search.route, plan.goal) /\ search.route[1].control \in seen.controls
    /\ plan.goal # Nowhere

\* The step of a journey that was chosen, and what it and the plan lack.
PartIsSound ==
  talk.at = "speaking" =>
    /\ ~plan.asks /\ Lacking(Chosen(talk.part)) = {}
    /\ talk.part # NoPart =>
         /\ talk.part.journey \in DOMAIN pin.journeys /\ PartOf(talk.part.journey) /\ plan.goal # Nowhere
         /\ pin.journeys[talk.part.journey].steps[talk.part.from + 1].checks = plan.goal

Before == {"asked", "planned", "searching", "routed", "speaking"}
AuthorityInv ==
  /\ AuthorityTypeOK /\ PlanIsAllowed /\ QueueIsSound /\ RouteIsSound /\ PartIsSound
  /\ talk.at \in Before => outcome = Ended("none")
  /\ talk.at \in {"asked", "planned"} => search.route = <<>>
  /\ talk.at \in {"searching", "routed", "speaking"} /\ Looks => seen.fresh
  /\ ReleasedIsAuthorised

\* What the pinned catalog is known to be made of.
LEMMA PinTyped ==
  ASSUME pin \in Catalogs
  PROVE  /\ DOMAIN pin.screens \subseteq Screens /\ DOMAIN pin.journeys \subseteq JourneyIds
         /\ pin.moves \in Seq([from : Screens, to : Screens \cup {Nowhere}, control : ControlIds, sure : BOOLEAN, roles : SUBSET Roles])
         /\ Nowhere \notin Screens /\ Nowhere \notin JourneyIds /\ MaxEdges \in Nat
  BY CatalogsAssumption DEF CatalogsAssumption

\* The plan made from any usable reply, and the safe question, is allowed.
LEMMA PlansAreAllowed ==
  ASSUME pin \in Catalogs, NEW r, Usable(r) \/ r = SafeReply, plan' = PlanOf(r), pin' = pin
  PROVE  PlanIsAllowed'
  <1> DEFINE target == TargetOf(r)
             goal == GoalOf(r)
             wants == r.strategy \in Executes \cup {"navigate"}
             mode == IF r.asks THEN "clarify" ELSE IF wants /\ ~Executable(target) /\ goal = Nowhere THEN "answer" ELSE r.strategy
             acts == (mode = "navigate" /\ goal # Nowhere) \/ (mode \in Executes /\ Executable(target))
  <1>1. /\ plan'.asks = r.asks /\ plan'.mode = mode /\ plan'.acts = acts /\ plan'.goal = goal
        /\ plan'.shows = (mode = "execute_then_observe_and_answer" /\ Executable(target) /\ pin.journeys[target].risk = "read")
        /\ plan'.journey = IF acts /\ mode # "navigate" /\ Executable(target) THEN target ELSE Nowhere
    BY DEF PlanOf
  <1>2. goal # Nowhere => r.strategy = "navigate"
    BY DEF GoalOf
  <1>3. Executable(target) => target # Nowhere
    BY PinTyped DEF Executable
  <1>4. \A j : Executable(j)' <=> Executable(j)
    BY DEF Executable, For
  <1> HIDE DEF target, goal
  <1>5. "navigate" \notin Executes /\ "clarify" \notin Executes /\ "answer" \notin Executes
    BY DEF Executes
  <1> QED BY <1>1, <1>2, <1>3, <1>4, <1>5 DEF PlanIsAllowed

\* A way that is joined stays joined with one more signed step.
LEMMA OneMoreHop ==
  ASSUME NEW e \in Entries, Trail(e), Len(e.steps) < MaxEdges, MaxEdges \in Nat,
         NEW h \in Hops, SignedHop(h), h.source = e.at
  PROVE  LET more == Append(e.steps, h)
         IN more \in Seq(Hops) /\ Len(more) \in 1 .. MaxEdges /\ Joined(more, h.target)
  <1> DEFINE steps == e.steps
             more == Append(steps, h)
             n == Len(steps)
  <1>1. steps \in Seq(Hops) /\ n \in Nat
    BY DEF Entries
  <1>2. more \in Seq(Hops) /\ Len(more) = n + 1 /\ more[n + 1] = h /\ \A i \in 1 .. n : more[i] = steps[i]
    BY <1>1
  <1>3. Joined(steps, e.at) /\ n =< MaxEdges
    BY DEF Trail
  <1>4. \A i \in 1 .. n + 1 : SignedHop(more[i])
    BY <1>1, <1>2, <1>3 DEF Joined
  <1>5. \A i \in 1 .. n : more[i].target = more[i + 1].source
    <2> SUFFICES ASSUME NEW i \in 1 .. n PROVE more[i].target = more[i + 1].source
      OBVIOUS
    <2>1. CASE i = n
      <3>1. steps # <<>> /\ steps[n].target = e.at
        BY <1>1, <1>3, <2>1 DEF Joined
      <3> QED BY <3>1, <2>1, <1>2, <1>1
    <2>2. CASE i # n
      BY <2>2, <1>1, <1>2, <1>3 DEF Joined
    <2> QED BY <2>1, <2>2
  <1>6. more[1].source = seen.source
    <2>1. CASE n = 0
      <3>1. steps = <<>> /\ e.at = seen.source
        BY <2>1, <1>1, <1>3 DEF Joined
      <3> QED BY <3>1, <2>1, <1>2
    <2>2. CASE n # 0
      <3>1. 1 \in 1 .. n /\ steps # <<>> /\ steps[1].source = seen.source
        BY <2>2, <1>1, <1>3 DEF Joined
      <3> QED BY <3>1, <1>2
    <2> QED BY <2>1, <2>2
  <1>7. Joined(more, h.target)
    <2>1. Len(more) = n + 1 /\ Len(more) - 1 = n /\ more # <<>> /\ more[Len(more)].target = h.target
      BY <1>1, <1>2
    <2> HIDE DEF more, n
    <2> QED BY <1>4, <1>5, <1>6, <2>1 DEF Joined
  <1>8. Len(more) \in 1 .. MaxEdges
    BY <1>1, <1>2
  <1> QED BY <1>2, <1>7, <1>8

\* A move the search follows is a signed step.
LEMMA MovesAreSigned ==
  ASSUME pin \in Catalogs, NEW i \in 1 .. Len(pin.moves), NEW s \in Screens, Follows(pin.moves[i], s)
  PROVE  LET m == pin.moves[i]
             h == [source |-> s, control |-> m.control, target |-> m.to]
         IN h \in Hops /\ SignedHop(h) /\ h.source = s /\ h.target = m.to /\ m.to \in Screens /\ h.control = m.control
  <1> DEFINE m == pin.moves[i]
             h == [source |-> s, control |-> m.control, target |-> m.to]
  <1>0. m \in [from : Screens, to : Screens \cup {Nowhere}, control : ControlIds, sure : BOOLEAN, roles : SUBSET Roles]
    <2>1. ASSUME NEW S, NEW q \in Seq(S), NEW k \in 1 .. Len(q) PROVE q[k] \in S
      OBVIOUS
    <2>2. i \in 1 .. Len(pin.moves)
      OBVIOUS
    <2> QED BY <2>1, <2>2, PinTyped, Zenon
  <1>1. m.control \in ControlIds /\ m.to \in Screens
    BY <1>0 DEF Follows
  <1>2. h \in Hops
    BY <1>1 DEF Hops
  <1>3. SignedHop(h)
    BY <1>1 DEF SignedHop, Follows, SignedFor, ReadControl, For
  <1> QED BY <1>1, <1>2, <1>3

\* One step of the search.
LEMMA SearchStep ==
  ASSUME AuthorityInv, Search
  PROVE  AuthorityInv'
  <1>1. /\ AuthorityTypeOK /\ PlanIsAllowed /\ QueueIsSound /\ RouteIsSound /\ outcome = Ended("none") /\ (Looks => seen.fresh)
        /\ talk \in Talking /\ talk.at = "searching" /\ UNCHANGED <<pin, plan, seen, outcome>> /\ pin \in Catalogs /\ search \in Searches
    BY DEF AuthorityInv, Search, AuthorityTypeOK, Before
  <1>2. PlanIsAllowed' /\ (Looks => seen.fresh)'
    BY <1>1 DEF PlanIsAllowed, Executable, For, Looks
  <1>3. ReleasedIsAuthorised'
    BY <1>1 DEF ReleasedIsAuthorised, Ended
  <1>4. ASSUME NEW q, Joined(q, plan.goal) PROVE Joined(q, plan.goal)'
    BY <1>1, <1>4 DEF Joined, SignedHop
  <1>5. ASSUME NEW e, Trail(e) PROVE Trail(e)'
    BY <1>1, <1>5 DEF Trail, Joined, SignedHop
  <1>12. outcome'.route \in Seq(Hops)
    BY <1>1 DEF Ended
  <1>6. SUFFICES talk' \in Talking /\ talk'.at \in {"searching", "routed"} /\ search' \in Searches /\ QueueIsSound' /\ RouteIsSound'
    BY <1>1, <1>2, <1>3, <1>12 DEF AuthorityInv, AuthorityTypeOK, PartIsSound, Before
  <1>0. ASSUME NEW stage \in Stages, talk' = [talk EXCEPT !.at = stage]
        PROVE  talk' \in Talking /\ talk'.at = stage
    BY <1>0, <1>1 DEF Talking
  <1>7. ASSUME UNCHANGED search, talk'.at = "routed"
        PROVE  search' \in Searches /\ QueueIsSound' /\ RouteIsSound'
    BY <1>7, <1>1, <1>4 DEF QueueIsSound, RouteIsSound
  <1>8. CASE search.queue = <<>>
    <2>1. talk' = [talk EXCEPT !.at = "routed"] /\ UNCHANGED search
      BY <1>8 DEF Search, At
    <2> QED BY <2>1, <1>0, <1>7 DEF Stages
  <1>9. CASE search.queue # <<>>
    <2> DEFINE head == Head(search.queue)
               m == pin.moves[search.next]
               hop == [source |-> head.at, control |-> m.control, target |-> m.to]
               steps == Append(head.steps, hop)
               behind == Tail(search.queue)
    <2>1. /\ search.queue \in Seq(Entries) /\ search.reached \in SUBSET Screens /\ search.next \in Nat \ {0} /\ search.route \in Seq(Hops)
          /\ search = [queue |-> search.queue, reached |-> search.reached, next |-> search.next, route |-> search.route]
      BY <1>1 DEF Searches, Entries
    <2>2. /\ head \in Entries /\ Trail(head) /\ behind \in Seq(Entries)
          /\ \A i \in 1 .. Len(behind) : Trail(behind[i])
      <3>1. head = search.queue[1] /\ 1 \in 1 .. Len(search.queue) /\ behind \in Seq(Entries)
            /\ Len(behind) = Len(search.queue) - 1 /\ \A i \in 1 .. Len(behind) : behind[i] = search.queue[i + 1]
        BY <1>9, <2>1
      <3>2. \A i \in 1 .. Len(search.queue) : Trail(search.queue[i]) /\ search.queue[i] \in Entries
        BY <1>1, <2>1 DEF QueueIsSound
      <3>3. head \in Entries /\ Trail(head)
        BY <3>1, <3>2
      <3>4. ASSUME NEW i \in 1 .. Len(behind) PROVE Trail(behind[i])
        <4>1. i + 1 \in 1 .. Len(search.queue) /\ behind[i] = search.queue[i + 1]
          BY <3>1, <2>1
        <4> QED BY <4>1, <3>2
      <3> QED BY <3>1, <3>3, <3>4
    <2>3. CASE Len(head.steps) >= MaxEdges \/ search.next > Len(pin.moves)
      <3>1. search' = [search EXCEPT !.queue = Tail(@), !.next = 1] /\ UNCHANGED talk
        BY <1>9, <2>3 DEF Search, NextEntry
      <3>2. search' = [queue |-> behind, reached |-> search.reached, next |-> 1, route |-> search.route]
        BY <3>1, <2>1
      <3> HIDE DEF behind
      <3>3. search' \in Searches
        BY <3>2, <2>1, <2>2 DEF Searches, Entries
      <3>4. search'.queue = behind /\ search'.route = search.route
        BY <3>2
      <3>5. QueueIsSound' /\ RouteIsSound'
        BY <3>1, <3>4, <2>2, <1>1, <1>4, <1>5 DEF QueueIsSound, RouteIsSound
      <3> QED BY <3>1, <3>3, <3>5, <1>1
    <2>4. CASE Len(head.steps) < MaxEdges /\ search.next =< Len(pin.moves)
      <3>0. MaxEdges \in Nat /\ pin.moves \in Seq([from : Screens, to : Screens \cup {Nowhere}, control : ControlIds, sure : BOOLEAN, roles : SUBSET Roles])
        BY <1>1, PinTyped
      <3>1. search.next \in 1 .. Len(pin.moves) /\ Len(head.steps) \in Nat /\ head.at \in Screens
        <4>1. head.at \in Screens /\ head.steps \in Seq(Hops)
          BY <2>2 DEF Entries
        <4> QED BY <2>4, <2>1, <3>0, <4>1
      <3>2. \/ ~Follows(m, head.at) /\ search' = NextMove /\ UNCHANGED talk
            \/ Follows(m, head.at) /\ m.to = plan.goal /\ search' = [search EXCEPT !.route = Found(steps)] /\ At("routed")
            \/ Follows(m, head.at) /\ m.to # plan.goal /\ m.to \in search.reached /\ search' = NextMove /\ UNCHANGED talk
            \/ /\ Follows(m, head.at) /\ m.to # plan.goal
               /\ search' = [NextMove EXCEPT !.queue = Append(@, [at |-> m.to, steps |-> steps]), !.reached = @ \cup {m.to}]
               /\ UNCHANGED talk
        <4>1. ~(Len(head.steps) >= MaxEdges \/ search.next > Len(pin.moves))
          BY <2>4, <3>0, <3>1, <2>1
        <4> HIDE DEF m, head, steps
        <4> QED BY <1>9, <4>1 DEF Search, m, head, steps
      <3>3. CASE search' = NextMove /\ UNCHANGED talk
        <4>1. search' = [queue |-> search.queue, reached |-> search.reached, next |-> search.next + 1, route |-> search.route]
          BY <3>3, <2>1 DEF NextMove
        <4>2. search' \in Searches
          BY <4>1, <2>1 DEF Searches, Entries
        <4>3. search'.queue = search.queue /\ search'.route = search.route
          BY <4>1
        <4>4. QueueIsSound' /\ RouteIsSound'
          BY <3>3, <4>3, <1>1, <1>4, <1>5 DEF QueueIsSound, RouteIsSound
        <4> QED BY <3>3, <4>2, <4>4, <1>1
      <3>4. ASSUME Follows(m, head.at)
            PROVE  hop \in Hops /\ SignedHop(hop) /\ hop.source = head.at /\ hop.target = m.to /\ m.to \in Screens
        BY <3>4, <3>1, <1>1, MovesAreSigned
      <3>5. ASSUME Follows(m, head.at)
            PROVE  steps \in Seq(Hops) /\ Len(steps) \in 1 .. MaxEdges /\ Joined(steps, m.to)
        <4> HIDE DEF head, hop, m
        <4>1. hop \in Hops /\ SignedHop(hop) /\ hop.source = head.at /\ hop.target = m.to
          BY <3>4, <3>5
        <4> QED BY <4>1, <2>2, <2>4, <3>0, OneMoreHop, Zenon
      <3>6. CASE Follows(m, head.at) /\ m.to = plan.goal /\ search' = [search EXCEPT !.route = Found(steps)] /\ At("routed")
        <4> HIDE DEF steps
        <4>1. search' = [queue |-> search.queue, reached |-> search.reached, next |-> search.next, route |-> Found(steps)]
          BY <3>6, <2>1
        <4>2. steps \in Seq(Hops) /\ Len(steps) \in 1 .. MaxEdges /\ Joined(steps, plan.goal)
          BY <3>5, <3>6
        <4>3. talk' \in Talking /\ talk'.at = "routed"
          BY <3>6, <1>0 DEF At, Stages
        <4>4. steps[1].source = seen.source /\ ((Found(steps) = steps /\ steps[1].control \in seen.controls) \/ Found(steps) = <<>>)
          BY <4>2 DEF Found, Joined
        <4>9. Found(steps) \in Seq(Hops)
          <5>1. <<>> \in Seq(Hops)
            OBVIOUS
          <5> QED BY <5>1, <4>2, <4>4
        <4>5. search' \in Searches /\ search'.route = Found(steps)
          BY <4>1, <4>9, <2>1 DEF Searches, Entries
        <4>6. plan.goal # Nowhere /\ plan' = plan /\ seen' = seen
          BY <3>4, <3>6, <3>0, <1>1, PinTyped
        <4>7. RouteIsSound'
          BY <4>2, <4>4, <4>5, <4>6, <1>4 DEF RouteIsSound
        <4>8. QueueIsSound'
          BY <4>3 DEF QueueIsSound
        <4> QED BY <4>3, <4>5, <4>7, <4>8
      <3>7. CASE /\ Follows(m, head.at) /\ m.to # plan.goal
                 /\ search' = [NextMove EXCEPT !.queue = Append(@, [at |-> m.to, steps |-> steps]), !.reached = @ \cup {m.to}]
                 /\ UNCHANGED talk
        <4> DEFINE entry == [at |-> m.to, steps |-> steps]
        <4>1. entry \in Entries /\ entry.at = m.to /\ entry.steps = steps
          BY <3>4, <3>5, <3>7 DEF Entries
        <4>2. Trail(entry)
          BY <4>1, <3>5, <3>7, <3>0 DEF Trail
        <4>3. m.to \in Screens
          BY <3>4, <3>7
        <4> HIDE DEF entry, steps, m, head, hop
        <4>4. NextMove = [queue |-> search.queue, reached |-> search.reached, next |-> search.next + 1, route |-> search.route]
          BY <2>1 DEF NextMove
        <4>5. search' = [NextMove EXCEPT !.queue = Append(@, entry), !.reached = @ \cup {m.to}]
          BY <3>7 DEF entry
        <4>6. search' = [queue |-> Append(search.queue, entry), reached |-> search.reached \cup {m.to}, next |-> search.next + 1, route |-> search.route]
          BY <4>4, <4>5
        <4>7. search' \in Searches
          BY <4>6, <4>1, <4>3, <2>1 DEF Searches, Entries
        <4>8. search'.queue = Append(search.queue, entry) /\ search'.route = search.route
          BY <4>6
        <4>9. \A i \in 1 .. Len(search'.queue) : Trail(search'.queue[i])
          <5>1. \A i \in 1 .. Len(search.queue) : Trail(search.queue[i])
            BY <1>1 DEF QueueIsSound
          <5> QED BY <5>1, <4>1, <4>2, <4>8, <2>1
        <4>10. QueueIsSound' /\ RouteIsSound'
          <5>1. QueueIsSound'
            BY <4>9, <1>5, <3>7 DEF QueueIsSound
          <5>2. RouteIsSound'
            BY <4>8, <1>1, <1>4 DEF RouteIsSound
          <5> QED BY <5>1, <5>2
        <4> QED BY <4>7, <4>10, <3>7, <1>1
      <3> QED BY <3>2, <3>3, <3>6, <3>7
    <2>5. Len(head.steps) \in Nat /\ MaxEdges \in Nat /\ Len(pin.moves) \in Nat
      <3>1. head.steps \in Seq(Hops)
        BY <2>2 DEF Entries
      <3> QED BY <3>1, <1>1, PinTyped
    <2> QED BY <2>1, <2>3, <2>4, <2>5
  <1> QED BY <1>8, <1>9

\* What is over releases nothing; what is said of a plan stays so while nothing changes.
LEMMA NothingReleased ==
  ASSUME outcome'.kind \in {"none", "failed", "stopped", "resumed", "refused", "ask", "answer", "capped"}
  PROVE  ReleasedIsAuthorised'
  BY DEF ReleasedIsAuthorised

LEMMA Endings ==
  ASSUME NEW k
  PROVE  Ended(k).kind = k /\ Ended(k).route \in Seq(Hops) /\ Ended(k) = [kind |-> k, journey |-> Nowhere, from |-> 0, inputs |-> {}, route |-> <<>>, tool |-> "none", confirm |-> FALSE]
  BY DEF Ended

LEMMA Stays ==
  ASSUME PlanIsAllowed, UNCHANGED <<pin, plan, seen>>
  PROVE  PlanIsAllowed' /\ (RouteIsSound /\ UNCHANGED search => RouteIsSound') /\ ((Looks => seen.fresh) <=> (Looks => seen.fresh)')
  <1>1. PlanIsAllowed'
    BY DEF PlanIsAllowed, Executable, For
  <1>2. ASSUME RouteIsSound, UNCHANGED search PROVE RouteIsSound'
    BY <1>2 DEF RouteIsSound, Joined, SignedHop
  <1>3. (Looks => seen.fresh) <=> (Looks => seen.fresh)'
    BY DEF Looks
  <1> QED BY <1>1, <1>2, <1>3

LEMMA AuthorityStart == AuthorityInit => AuthorityInv
  <1> SUFFICES ASSUME AuthorityInit PROVE AuthorityInv
    OBVIOUS
  <1>1. AuthorityTypeOK
    BY CatalogsAssumption DEF CatalogsAssumption, AuthorityInit, AuthorityTypeOK, Idle, NoPart, NoSearch, Talking, Searches, Stages, Ended
  <1>2. PlanIsAllowed
    BY DEF AuthorityInit, NoPlan, PlanIsAllowed
  <1>3. talk.at = "idle" /\ search.route = <<>> /\ outcome.kind = "none"
    BY DEF AuthorityInit, Idle, NoSearch, Ended
  <1>4. QueueIsSound /\ RouteIsSound /\ PartIsSound
    BY <1>3 DEF QueueIsSound, RouteIsSound, PartIsSound
  <1>5. ReleasedIsAuthorised
    BY <1>3 DEF ReleasedIsAuthorised
  <1> QED BY <1>1, <1>2, <1>3, <1>4, <1>5 DEF AuthorityInv, Before

\* Everything of the turn as it goes from one stage to another.
LEMMA AuthorityStep ==
  ASSUME AuthorityInv, [AuthorityNext]_authorityVars
  PROVE  AuthorityInv'
  <1> USE DEF AuthorityInv
  <1>t. /\ pin \in Catalogs /\ talk \in Talking /\ search \in Searches /\ outcome.route \in Seq(Hops)
        /\ talk = [at |-> talk.at, active |-> talk.active, named |-> talk.named, tries |-> talk.tries, iter |-> talk.iter, part |-> talk.part]
        /\ talk.at \in Stages
    BY DEF AuthorityTypeOK, Talking
  <1>s. ASSUME NEW stage \in Stages, talk' = [talk EXCEPT !.at = stage]
        PROVE  talk' \in Talking /\ talk'.at = stage /\ talk'.part = talk.part
    BY <1>s, <1>t DEF Talking
  \* A turn that ends releases nothing.
  <1>e. ASSUME NEW k \in {"none", "failed", "stopped", "resumed", "refused", "ask", "answer", "capped"},
               Conclude(Ended(k)), UNCHANGED <<pin, plan, seen, search>>
        PROVE  AuthorityInv'
    <2>1. talk' \in Talking /\ talk'.at = "idle"
      BY <1>e, <1>s DEF Conclude, Stages
    <2>2. outcome' = Ended(k)
      BY <1>e DEF Conclude
    <2>3. ReleasedIsAuthorised' /\ outcome'.route \in Seq(Hops)
      BY <2>2, <1>e, NothingReleased, Endings
    <2>4. AuthorityTypeOK'
      BY <1>e, <1>t, <2>1, <2>3 DEF AuthorityTypeOK
    <2>5. PlanIsAllowed' /\ RouteIsSound'
      BY <1>e, Stays
    <2>6. QueueIsSound' /\ PartIsSound'
      BY <2>1 DEF QueueIsSound, PartIsSound
    <2> QED BY <2>1, <2>3, <2>4, <2>5, <2>6 DEF Before
  <1>1. CASE Hear
    <2>1. PICK active \in {"none", "journey", "paused", "route"}, named \in BOOLEAN :
            talk' = [Idle EXCEPT !.at = IF pin.dynamic /\ NoneApproved THEN "dynamic" ELSE "asked", !.active = active, !.named = named]
      BY <1>1 DEF Hear
    <2>2. talk' \in Talking /\ talk'.at \in {"dynamic", "asked"}
      <3>1. 0 \in 0 .. MaxIterations
        BY CatalogsAssumption, SMT DEF CatalogsAssumption
      <3>2. talk'.at \in {"dynamic", "asked"} /\ talk' = [at |-> talk'.at, active |-> active, named |-> named, tries |-> 0, iter |-> 0, part |-> NoPart]
        BY <2>1 DEF Idle
      <3> QED BY <3>1, <3>2 DEF Talking, Stages, NoPart
    <2>3. plan' = NoPlan /\ seen' = Unseen /\ search' = NoSearch /\ outcome' = Ended("none") /\ pin' = pin
      BY <1>1 DEF Hear
    <2>4. search' \in Searches /\ search'.route = <<>> /\ outcome'.kind = "none" /\ outcome'.route \in Seq(Hops)
      BY <2>3, Endings DEF NoSearch, Searches
    <2>5. AuthorityTypeOK'
      BY <2>2, <2>3, <2>4, <1>t DEF AuthorityTypeOK
    <2>6. PlanIsAllowed'
      BY <2>3 DEF NoPlan, PlanIsAllowed
    <2>7. QueueIsSound' /\ RouteIsSound' /\ PartIsSound'
      BY <2>2, <2>4 DEF QueueIsSound, RouteIsSound, PartIsSound
    <2>8. ReleasedIsAuthorised'
      BY <2>4, NothingReleased
    <2> QED BY <2>2, <2>3, <2>4, <2>5, <2>6, <2>7, <2>8 DEF Before
  <1>2. CASE Reply
    <2>1. /\ talk.at = "asked" /\ UNCHANGED <<pin, seen, search, outcome>> /\ search.route = <<>> /\ outcome = Ended("none")
      BY <1>2 DEF Reply, Before
    <2>2. PICK r \in Replies :
            IF Usable(r) \/ talk.tries = 1
            THEN plan' = PlanOf(IF Usable(r) THEN r ELSE SafeReply) /\ At("planned")
            ELSE talk' = [talk EXCEPT !.tries = 1] /\ UNCHANGED plan
      BY <1>2 DEF Reply
    <2>3. PlanIsAllowed' /\ talk' \in Talking /\ talk'.at \in {"asked", "planned"}
      <3>1. CASE plan' = PlanOf(IF Usable(r) THEN r ELSE SafeReply) /\ At("planned")
        <4> DEFINE read == IF Usable(r) THEN r ELSE SafeReply
        <4>1. Usable(read) \/ read = SafeReply
          OBVIOUS
        <4> HIDE DEF read
        <4>2. plan' = PlanOf(read)
          BY <3>1 DEF read
        <4>3. PlanIsAllowed'
          BY <4>1, <4>2, <2>1, <1>t, PlansAreAllowed
        <4>4. talk' \in Talking /\ talk'.at = "planned"
          BY <3>1, <1>s DEF At, Stages
        <4> QED BY <4>3, <4>4
      <3>2. CASE talk' = [talk EXCEPT !.tries = 1] /\ UNCHANGED plan
        <4>1. talk' \in Talking /\ talk'.at = talk.at
          BY <3>2, <1>t DEF Talking
        <4> QED BY <4>1, <3>2, <2>1, Stays
      <3> QED BY <2>2, <3>1, <3>2
    <2>4. AuthorityTypeOK' /\ outcome'.kind = "none"
      BY <2>1, <2>3, <1>t, Endings DEF AuthorityTypeOK
    <2>5. QueueIsSound' /\ RouteIsSound' /\ PartIsSound' /\ ReleasedIsAuthorised'
      BY <2>1, <2>3, <2>4, NothingReleased DEF QueueIsSound, RouteIsSound, PartIsSound
    <2> QED BY <2>1, <2>3, <2>4, <2>5 DEF Before
  <1>3. CASE Fails
    <2>1. CASE Conclude(Ended("failed"))
      BY <2>1, <1>3, <1>e DEF Fails
    <2>2. CASE At("dynamic") /\ UNCHANGED outcome /\ talk.at \in {"asked", "speaking"}
      <3>1. talk' \in Talking /\ talk'.at = "dynamic" /\ UNCHANGED <<pin, plan, seen, search, outcome>> /\ outcome = Ended("none")
        BY <2>2, <1>3, <1>s DEF Fails, At, Stages, Before
      <3>2. AuthorityTypeOK' /\ outcome'.kind = "none"
        BY <3>1, <1>t, Endings DEF AuthorityTypeOK
      <3>3. PlanIsAllowed' /\ RouteIsSound'
        BY <3>1, Stays
      <3>4. QueueIsSound' /\ PartIsSound' /\ ReleasedIsAuthorised'
        BY <3>1, <3>2, NothingReleased DEF QueueIsSound, PartIsSound
      <3> QED BY <3>1, <3>2, <3>3, <3>4 DEF Before
    <2> QED BY <1>3, <2>1, <2>2 DEF Fails
  <1>4. CASE Heeds
    BY <1>4, <1>e DEF Heeds
  <1>5. CASE Look
    <2>1. talk.at = "planned" /\ UNCHANGED <<pin, plan, outcome>> /\ outcome = Ended("none") /\ search.route = <<>>
      BY <1>5 DEF Look, Before
    <2>2. Looks => seen'.fresh
      BY <1>5 DEF Look, Unseen
    <2>3. PlanIsAllowed'
      BY <2>1 DEF PlanIsAllowed, Executable, For
    <2>4. outcome'.kind = "none" /\ outcome'.route \in Seq(Hops) /\ ReleasedIsAuthorised'
      BY <2>1, Endings, NothingReleased
    <2>5. ASSUME talk' \in Talking, talk'.at \in {"searching", "routed"}, search' \in Searches, search'.route = <<>>, QueueIsSound'
          PROVE  AuthorityInv'
      <3>1. AuthorityTypeOK'
        BY <2>5, <2>1, <2>4, <1>t DEF AuthorityTypeOK
      <3>2. RouteIsSound' /\ PartIsSound' /\ (Looks => seen.fresh)'
        BY <2>5, <2>1, <2>2 DEF RouteIsSound, PartIsSound, Looks
      <3> QED BY <2>5, <2>1, <2>3, <2>4, <3>1, <3>2 DEF Before
    <2>6. CASE At("routed") /\ UNCHANGED search
      <3>1. talk' \in Talking /\ talk'.at = "routed"
        BY <2>6, <1>s DEF At, Stages
      <3>2. QueueIsSound'
        BY <3>1 DEF QueueIsSound
      <3> QED BY <2>5, <2>6, <3>1, <3>2, <2>1, <1>t
    <2>7. CASE At("searching") /\ search' = Start(seen'.source) /\ seen'.source \in Screens
      <3>1. talk' \in Talking /\ talk'.at = "searching"
        BY <2>7, <1>s DEF At, Stages
      <3> DEFINE here == seen'.source
                 first == [at |-> here, steps |-> <<>>]
      <3>2. search' = [queue |-> <<first>>, reached |-> {here}, next |-> 1, route |-> <<>>]
        BY <2>7 DEF Start, NoSearch
      <3>3. first \in Entries /\ first.at = here /\ first.steps = <<>>
        BY <2>7 DEF Entries
      <3> HIDE DEF first
      <3>4. search' \in Searches /\ search'.route = <<>> /\ search'.queue = <<first>>
        BY <3>2, <3>3, <2>7 DEF Searches, Entries
      <3>5. MaxEdges \in Nat
        BY <1>t, PinTyped
      <3>6. ASSUME NEW e, e.at = here, e.steps = <<>> PROVE Trail(e)'
        BY <3>5, <3>6 DEF Trail, Joined
      <3>7. QueueIsSound'
        <4>1. \A i \in 1 .. Len(search'.queue) : search'.queue[i] = first
          BY <3>4
        <4> QED BY <4>1, <3>3, <3>6 DEF QueueIsSound
      <3> QED BY <2>5, <3>1, <3>4, <3>7
    <2>8. Aimed(seen') => seen'.source \in Screens
      <3>1. seen'.screen \in Screens \cup {Nowhere}
        <4>1. seen'.screen \in DOMAIN pin.known \cup {Nowhere}
          BY <1>5 DEF Look, Likeliest, Unseen
        <4>2. DOMAIN pin.known \subseteq Screens
          BY <1>t, CatalogsAssumption DEF CatalogsAssumption
        <4> QED BY <4>1, <4>2
      <3> QED BY <3>1 DEF Aimed, Agreed
    <2> QED BY <1>5, <2>6, <2>7, <2>8 DEF Look
  <1>6. CASE Blind
    BY <1>6, <1>e DEF Blind
  <1>7. CASE Search
    BY <1>7, SearchStep
  <1>8. CASE Resolve
    <2>1. talk.at = "routed" /\ UNCHANGED <<pin, plan, seen, search>> /\ outcome = Ended("none")
      BY <1>8 DEF Resolve, Before
    <2>2. PICK p \in Choices :
            \/ At("dynamic") /\ UNCHANGED outcome
            \/ Conclude(Ended("refused")) \/ Conclude(Ended("ask"))
            \/ ~plan.asks /\ Lacking(Chosen(p)) = {} /\ talk' = [talk EXCEPT !.at = "speaking", !.part = p] /\ UNCHANGED outcome
      BY <1>8 DEF Resolve
    <2>3. outcome.kind = "none" /\ outcome.route \in Seq(Hops)
      BY <2>1, Endings
    <2>4. ASSUME talk' \in Talking, talk'.at \in {"dynamic", "speaking"}, UNCHANGED outcome, PartIsSound'
          PROVE  AuthorityInv'
      <3>1. AuthorityTypeOK'
        BY <2>4, <2>1, <2>3, <1>t DEF AuthorityTypeOK
      <3>2. PlanIsAllowed' /\ RouteIsSound' /\ (Looks => seen.fresh)'
        BY <2>1, Stays
      <3>3. QueueIsSound' /\ ReleasedIsAuthorised'
        BY <2>3, <2>4, NothingReleased DEF QueueIsSound
      <3> QED BY <2>1, <2>4, <3>1, <3>2, <3>3 DEF Before
    <2>5. CASE At("dynamic") /\ UNCHANGED outcome
      <3>1. talk' \in Talking /\ talk'.at = "dynamic"
        BY <2>5, <1>s DEF At, Stages
      <3> QED BY <3>1, <2>4, <2>5 DEF PartIsSound
    <2>6. CASE Conclude(Ended("refused")) \/ Conclude(Ended("ask"))
      BY <2>6, <2>1, <1>e
    <2>7. CASE ~plan.asks /\ Lacking(Chosen(p)) = {} /\ talk' = [talk EXCEPT !.at = "speaking", !.part = p] /\ UNCHANGED outcome
      <3>1. p = NoPart \/ (plan.goal # Nowhere /\ p \in Parts)
        BY DEF Choices, Served, Agreed
      <3>2. ASSUME p \in Parts
            PROVE  /\ p.journey \in DOMAIN pin.journeys /\ PartOf(p.journey) /\ p = [journey |-> p.journey, from |-> p.from]
                   /\ p.from \in DOMAIN pin.journeys[p.journey].steps
                   /\ pin.journeys[p.journey].steps[p.from + 1].checks = plan.goal
        BY <3>2 DEF Parts, Leads
      <3>3. p \in [journey : JourneyIds \cup {Nowhere}, from : Nat]
        <4>1. CASE p = NoPart
          BY <4>1 DEF NoPart
        <4>2. CASE p \in Parts
          <5>1. p.journey \in JourneyIds /\ p.from \in Nat
            BY <3>2, <4>2, <1>t, CatalogsAssumption DEF CatalogsAssumption
          <5> QED BY <5>1, <3>2, <4>2
        <4> QED BY <3>1, <4>1, <4>2
      <3>4. talk' = [at |-> "speaking", active |-> talk.active, named |-> talk.named, tries |-> talk.tries, iter |-> talk.iter, part |-> p]
        BY <2>7, <1>t
      <3>5. talk' \in Talking
        BY <3>3, <3>4, <1>t DEF Talking, Stages
      <3>6. talk'.at = "speaking" /\ talk'.part = p
        BY <3>4
      <3>7. Lacking(Chosen(p))' = {}
        BY <2>7, <2>1, <3>1 DEF Lacking, Chosen, Executable, For
      <3>8. PartIsSound'
        BY <2>1, <2>7, <3>1, <3>2, <3>6, <3>7 DEF PartIsSound, PartOf, For
      <3> QED BY <2>4, <2>7, <3>5, <3>6, <3>8
    <2> QED BY <2>2, <2>5, <2>6, <2>7
  <1>9. CASE Release
    <2> DEFINE j == Chosen(talk.part)
    <2>1. talk.at = "speaking" /\ UNCHANGED <<pin, plan, seen, search>> /\ ~plan.asks /\ Lacking(j) = {} /\ (Looks => seen.fresh)
      BY <1>9 DEF Release, PartIsSound
    <2>2. /\ talk' \in Talking /\ talk'.at = "idle"
          /\ \/ outcome' = Ended("answer")
             \/ plan.acts /\ search.route # <<>> /\ outcome' = [Ended("route") EXCEPT !.route = search.route]
             \/ plan.acts /\ talk.part # NoPart /\ outcome' = [Ended("part") EXCEPT !.journey = j, !.from = talk.part.from, !.inputs = plan.inputs]
             \/ plan.acts /\ talk.part = NoPart /\ j # Nowhere /\ outcome' = [Ended("journey") EXCEPT !.journey = j, !.inputs = plan.inputs]
      <3>1. Conclude(outcome')
        BY <1>9 DEF Release, Conclude
      <3>2. talk' \in Talking /\ talk'.at = "idle"
        BY <3>1, <1>s DEF Conclude, Stages
      <3> QED BY <1>9, <3>2 DEF Release, Conclude
    <2>3. ASSUME outcome'.route \in Seq(Hops), ReleasedIsAuthorised' PROVE AuthorityInv'
      <3>1. AuthorityTypeOK'
        BY <2>1, <2>2, <2>3, <1>t DEF AuthorityTypeOK
      <3>2. PlanIsAllowed' /\ RouteIsSound'
        BY <2>1, Stays
      <3>3. QueueIsSound' /\ PartIsSound'
        BY <2>2 DEF QueueIsSound, PartIsSound
      <3> QED BY <2>2, <2>3, <3>1, <3>2, <3>3 DEF Before
    <2>4. CASE outcome' = Ended("answer")
      BY <2>3, <2>4, NothingReleased, Endings
    <2>5. CASE plan.acts /\ search.route # <<>> /\ outcome' = [Ended("route") EXCEPT !.route = search.route]
      <3>1. outcome'.kind = "route" /\ outcome'.route = search.route
        BY <2>5, Endings
      <3>2. Looks /\ seen.fresh
        BY <2>1, <2>5 DEF Looks, RouteIsSound, PlanIsAllowed
      <3>3. RouteIsAuthorised(search.route)'
        BY <2>1, <2>5, <3>2 DEF RouteIsSound, Joined, RouteIsAuthorised, SignedHop
      <3>4. ReleasedIsAuthorised'
        BY <2>1, <3>1, <3>3 DEF ReleasedIsAuthorised
      <3> QED BY <2>3, <3>1, <3>4, <1>t DEF Searches
    <2>6. CASE plan.acts /\ talk.part # NoPart /\ outcome' = [Ended("part") EXCEPT !.journey = j, !.from = talk.part.from, !.inputs = plan.inputs]
      <3>1. outcome' = [kind |-> "part", journey |-> j, from |-> talk.part.from, inputs |-> plan.inputs, route |-> <<>>, tool |-> "none", confirm |-> FALSE]
        BY <2>6 DEF Ended
      <3>2. /\ j = talk.part.journey /\ j \in DOMAIN pin.journeys /\ PartOf(j)
            /\ pin.journeys[j].steps[talk.part.from + 1].checks = plan.goal /\ plan.goal # Nowhere
        BY <2>1, <2>6 DEF PartIsSound, Chosen
      <3>3. j # Nowhere
        BY <3>2, <1>t, PinTyped
      <3>4. JourneyIsAuthorised(outcome.journey, outcome.inputs)'
        BY <2>1, <3>1, <3>2, <3>3 DEF JourneyIsAuthorised, PartOf, Lacking, For
      <3>5. Looks /\ seen.fresh
        BY <2>1, <2>6, <3>2 DEF Looks, PlanIsAllowed
      <3>6. ReleasedIsAuthorised'
        BY <2>1, <3>1, <3>2, <3>4, <3>5 DEF ReleasedIsAuthorised, PartOf
      <3> QED BY <2>3, <3>1, <3>6
    <2>7. CASE plan.acts /\ talk.part = NoPart /\ j # Nowhere /\ outcome' = [Ended("journey") EXCEPT !.journey = j, !.inputs = plan.inputs]
      <3>1. outcome' = [kind |-> "journey", journey |-> j, from |-> 0, inputs |-> plan.inputs, route |-> <<>>, tool |-> "none", confirm |-> FALSE]
        BY <2>7 DEF Ended
      <3>2. j = plan.journey /\ Executable(j) /\ plan.goal = Nowhere
        BY <2>7 DEF Chosen, PlanIsAllowed
      <3>3. JourneyIsAuthorised(outcome.journey, outcome.inputs)'
        BY <2>1, <2>7, <3>1, <3>2 DEF JourneyIsAuthorised, Executable, Lacking, For
      <3>4. plan.shows => pin.journeys[j].risk = "read"
        BY <2>7, <3>2 DEF PlanIsAllowed
      <3>5. ReleasedIsAuthorised'
        BY <2>1, <3>1, <3>2, <3>3, <3>4 DEF ReleasedIsAuthorised, Executable
      <3> QED BY <2>3, <3>1, <3>5
    <2> QED BY <2>2, <2>4, <2>5, <2>6, <2>7
  <1>10. CASE Propose
    <2>1. talk.at = "dynamic" /\ UNCHANGED <<pin, plan, seen, search>>
      BY <1>10 DEF Propose
    <2>2. \/ \E k \in {"capped", "answer", "failed"} : Conclude(Ended(k))
          \/ /\ talk.iter # MaxIterations /\ talk' = [talk EXCEPT !.iter = @ + 1]
             /\ \/ outcome' = Ended("none")
                \/ \E tool \in Enabled : outcome' = [Ended("tool") EXCEPT !.tool = tool, !.confirm = AsksFirst(tool)]
      BY <1>10 DEF Propose, Capped
    <2>3. CASE \E k \in {"capped", "answer", "failed"} : Conclude(Ended(k))
      BY <2>1, <2>3, <1>e
    <2>4. CASE /\ talk.iter # MaxIterations /\ talk' = [talk EXCEPT !.iter = @ + 1]
               /\ \/ outcome' = Ended("none")
                  \/ \E tool \in Enabled : outcome' = [Ended("tool") EXCEPT !.tool = tool, !.confirm = AsksFirst(tool)]
      <3>1. talk.iter + 1 \in 0 .. MaxIterations
        <4>1. talk.iter \in 0 .. MaxIterations
          BY <1>t DEF Talking
        <4>2. MaxIterations \in Nat
          BY CatalogsAssumption DEF CatalogsAssumption
        <4>3. talk.iter # MaxIterations
          BY <2>4
        <4> QED BY <4>1, <4>2, <4>3
      <3>2. talk' = [at |-> talk.at, active |-> talk.active, named |-> talk.named, tries |-> talk.tries, iter |-> talk.iter + 1, part |-> talk.part]
        BY <2>4, <1>t
      <3>3. talk' \in Talking /\ talk'.at = "dynamic"
        BY <3>1, <3>2, <1>t, <2>1 DEF Talking
      <3>4. outcome'.route \in Seq(Hops) /\ ReleasedIsAuthorised'
        <4>1. CASE outcome' = Ended("none")
          BY <4>1, Endings, NothingReleased
        <4>2. CASE \E tool \in Enabled : outcome' = [Ended("tool") EXCEPT !.tool = tool, !.confirm = AsksFirst(tool)]
          <5>1. PICK tool \in Enabled : outcome' = [Ended("tool") EXCEPT !.tool = tool, !.confirm = AsksFirst(tool)]
            BY <4>2
          <5>2. outcome' = [kind |-> "tool", journey |-> Nowhere, from |-> 0, inputs |-> {}, route |-> <<>>, tool |-> tool, confirm |-> AsksFirst(tool)]
            BY <5>1 DEF Ended
          <5>3. tool \in ToolKinds /\ (pin.tools # {} => tool \in pin.tools)
            BY DEF Enabled
          <5>4. tool \in {"click", "fill", "select", "check", "uncheck", "navigate"} => (AsksFirst(tool) <=> ~pin.auto)
            BY DEF AsksFirst, ToolRisk
          <5> QED BY <2>1, <5>2, <5>3, <5>4 DEF ReleasedIsAuthorised
        <4> QED BY <2>4, <4>1, <4>2
      <3>5. AuthorityTypeOK'
        BY <2>1, <3>3, <3>4, <1>t DEF AuthorityTypeOK
      <3>6. PlanIsAllowed' /\ RouteIsSound'
        BY <2>1, Stays
      <3>7. QueueIsSound' /\ PartIsSound'
        BY <3>3 DEF QueueIsSound, PartIsSound
      <3> QED BY <3>3, <3>4, <3>5, <3>6, <3>7 DEF Before
    <2> QED BY <2>2, <2>3, <2>4
  <1>11. CASE UNCHANGED authorityVars
    <2>1. UNCHANGED <<pin, talk, plan, seen, search, outcome>>
      BY <1>11 DEF authorityVars
    <2>2. AuthorityTypeOK'
      BY <2>1 DEF AuthorityTypeOK
    <2>4. QueueIsSound'
      <3>1. ASSUME NEW e, Trail(e) PROVE Trail(e)'
        BY <2>1, <3>1 DEF Trail, Joined, SignedHop
      <3> QED BY <2>1, <3>1 DEF QueueIsSound
    <2>5. PartIsSound'
      BY <2>1 DEF PartIsSound, Lacking, Chosen, Executable, PartOf, For
    <2>3. ReleasedIsAuthorised'
      BY <2>1 DEF ReleasedIsAuthorised, RouteIsAuthorised, JourneyIsAuthorised, SignedHop
    <2> QED BY <2>1, <2>2, <2>3, <2>4, <2>5, Stays DEF Before, Looks
  <1> QED BY <1>1, <1>2, <1>3, <1>4, <1>5, <1>6, <1>7, <1>8, <1>9, <1>10, <1>11 DEF AuthorityNext

\* A turn's invariant: its plan is allowed, and every way the search holds is signed.
THEOREM AuthorityInvariance == AuthoritySpec => []AuthorityInv
  <1>1. AuthorityInit => AuthorityInv
    BY AuthorityStart
  <1>2. AuthorityInv /\ [AuthorityNext]_authorityVars => AuthorityInv'
    BY AuthorityStep
  <1> QED BY <1>1, <1>2, PTL DEF AuthoritySpec

\* Whatever the planner's model answers and whatever the page shows, a turn
\* releases only a route, a part of a journey, a journey or a tool that the
\* pinned catalog allows this visitor.
THEOREM OnlyTheAuthorisedIsReleased == AuthoritySpec => []ReleasedIsAuthorised
  <1>1. AuthorityInv => ReleasedIsAuthorised
    BY DEF AuthorityInv
  <1> QED BY <1>1, AuthorityInvariance, PTL
=============================================================================
