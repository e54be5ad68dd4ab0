-------------------------------- MODULE Crawl --------------------------------
(***************************************************************************)
(* How product documentation is acquired (server/src/knowledge/crawl.ts,   *)
(* source-safety.ts): a seed is expanded into pages by a sitemap or by a   *)
(* breadth-first walk of the links, the pages are fetched by a pool of     *)
(* workers, again with a browser where plain fetching reads nothing, lines *)
(* that many pages share are dropped, and the rest is cut into chunks.     *)
(* Answers come in any order and may not come at all.  A page's text is a  *)
(* sequence of paragraphs; lengths are counted in paragraphs.              *)
(***************************************************************************)
EXTENDS Integers, Sequences, FiniteSets, SequencesExt, FiniteSetsExt

CONSTANTS
  Web,            \* [url -> [answers, to, links, text, painted, safe]]: "page", "redirect" or "missing"
  Files,          \* robots files that may be served: sequences of [key, value]; key "agent" with value TRUE if it is for us
  Sitemaps,       \* [name -> [index, locs]]; a name that is not there does not answer
  Seed, Default,  \* the page asked for; the sitemap of the origin
  InScope,        \* URLs under the seed that are no assets
  Wanted,         \* URLs that the spec's filters let through
  Mode,           \* CRAWL_RENDER: "auto", "always", "off"
  MaxDepth, DiscoverLimit, Limit, SitemapEnough, MaxRedirects,
  Slots,          \* pool workers
  ProbeSize, Threshold,                                \* in per cent of pages
  MinText, Target, Overlap, Finger,                    \* in paragraphs
  FewPages, LeastRepeats, Share, Repeatable,           \* when a paragraph is furniture
  MaxTimeouts     \* bound: fetches that are given up

VARIABLES at,      \* the step of the acquisition
          robots,  \* [disallow, sitemaps]
          walk,    \* [depth, level, seen, found]
          pool,    \* [urls, next, busy, got]: got in the order of the answers
          fetched, \* pages read so far, in the order of the answers
          corpus,  \* chunks kept: [text, source]
          lost     \* history: fetches given up, as <<step, url>>

vars == <<at, robots, walk, pool, fetched, corpus, lost>>

Urls == DOMAIN Web
None == "none"

-----------------------------------------------------------------------------
(* robots.txt: rules of the last agent line that applies to us; sitemaps of every agent. *)
Read(file) ==
  FoldLeft(LAMBDA r, line :
             CASE line.key = "agent" -> [r EXCEPT !.applies = line.value]
               [] line.key = "sitemap" -> [r EXCEPT !.sitemaps = Append(@, line.value)]
               [] line.key = "disallow" -> IF r.applies THEN [r EXCEPT !.disallow = @ \cup {line.value}] ELSE r,
           [applies |-> FALSE, disallow |-> {}, sitemaps |-> <<>>], file)
Locs(name) ==
  LET of(n) == IF n \in DOMAIN Sitemaps THEN Sitemaps[n].locs ELSE <<>>
  IN IF name \in DOMAIN Sitemaps /\ Sitemaps[name].index
     THEN FlattenSeq([i \in DOMAIN of(name) |-> of(of(name)[i])])
     ELSE of(name)
Distinct(s) == FoldLeft(LAMBDA r, x : IF Contains(r, x) THEN r ELSE Append(r, x), <<>>, s)
First(s, n) == SubSeq(s, 1, Min({n, Len(s)}))

(* Where a fetch ends: redirects are followed so far, each to a safe place only. *)
Ends[n \in 0 .. MaxRedirects, u \in Urls] ==
  CASE ~Web[u].safe -> None
    [] Web[u].safe /\ Web[u].answers # "redirect" -> u
    [] OTHER -> IF n = MaxRedirects THEN None ELSE Ends[n + 1, Web[u].to]
Answer(u) == IF Ends[0, u] = None THEN None ELSE IF Web[Ends[0, u]].answers = "page" THEN Ends[0, u] ELSE None
\* A browser shows whatever it is given, an error page as well.
Painted(u) == Ends[0, u]

-----------------------------------------------------------------------------
(* Lines that many pages share; chunks that overlap; the fingerprint of a chunk is its beginning. *)
Counts(pages) == Max({LeastRepeats, (Len(pages) * Share) \div 100})
Furniture(pages) ==
  IF Len(pages) < FewPages THEN {}
  ELSE {l \in Repeatable : Cardinality({i \in DOMAIN pages : Contains(pages[i].text, l)}) >= Counts(pages)}
Strip(pages) == [i \in DOMAIN pages |-> [pages[i] EXCEPT !.text = SelectSeq(@, LAMBDA l : l \notin Furniture(pages))]]
Chunks(text) ==
  LET add(r, p) == IF Len(r.buf) >= Target
                   THEN [out |-> Append(r.out, r.buf), buf |-> Append(SubSeq(r.buf, Target - Overlap + 1, Target), p)]
                   ELSE [r EXCEPT !.buf = Append(@, p)]
      r == FoldLeft(add, [out |-> <<>>, buf |-> <<>>], text)
  IN IF r.buf = <<>> THEN r.out ELSE Append(r.out, r.buf)
Fingerprint(chunk) == First(chunk, Finger)
Pieces(page) == LET c == Chunks(page.text) IN [i \in DOMAIN c |-> [text |-> c[i], source |-> page.url]]
Kept(pages) ==
  FoldLeft(LAMBDA r, c : IF \E d \in Range(r) : Fingerprint(d.text) = Fingerprint(c.text) THEN r ELSE Append(r, c),
           <<>>, FlattenSeq([i \in DOMAIN pages |-> Pieces(pages[i])]))

-----------------------------------------------------------------------------
Pool(urls) == [urls |-> urls, next |-> 1, busy |-> [w \in Slots |-> 0], got |-> <<>>]
Drained == pool.next > Len(pool.urls) /\ \A w \in Slots : pool.busy[w] = 0
\* The answers in the order of the questions.
Ordered == [i \in DOMAIN pool.urls |-> LET g == CHOOSE g \in Range(pool.got) : g.index = i IN g.end]

Init ==
  /\ at = "robots"
  /\ robots = [disallow |-> {}, sitemaps |-> <<>>]
  /\ walk = [depth |-> 0, level |-> <<Seed>>, seen |-> {Seed}, found |-> <<Seed>>]
  /\ pool = Pool(<<>>)
  /\ fetched = <<>> /\ corpus = <<>> /\ lost = {}

\* A file that cannot be read forbids nothing.
ReadRobots ==
  /\ at = "robots"
  /\ \E f \in Files : robots' = [disallow |-> Read(f).disallow, sitemaps |-> Append(Read(f).sitemaps, Default)]
  /\ at' = "sitemaps"
  /\ UNCHANGED <<walk, pool, fetched, corpus, lost>>
\* A sitemap that covers the section is taken as it is; without one the links are walked.
TrySitemap ==
  /\ at = "sitemaps"
  /\ IF robots.sitemaps = <<>>
     THEN at' = "walk" /\ pool' = Pool(walk.level) /\ UNCHANGED <<robots, walk>>
     ELSE LET scoped == SelectSeq(Distinct(Locs(Head(robots.sitemaps))), LAMBDA u : u \in InScope)
          IN IF Len(scoped) >= SitemapEnough
             THEN at' = "found" /\ walk' = [walk EXCEPT !.found = First(scoped, DiscoverLimit)] /\ UNCHANGED <<robots, pool>>
             ELSE robots' = [robots EXCEPT !.sitemaps = Tail(@)] /\ UNCHANGED <<at, walk, pool>>
  /\ UNCHANGED <<fetched, corpus, lost>>

(***************************************************************************)
(* A worker takes the next URL as soon as it is free.                      *)
(***************************************************************************)
Fetching == at \in {"walk", "probe", "static", "render"}
Take(w) ==
  /\ Fetching /\ pool.busy[w] = 0 /\ pool.next <= Len(pool.urls)
  /\ pool' = [pool EXCEPT !.busy[w] = pool.next, !.next = @ + 1]
  /\ UNCHANGED <<at, robots, walk, fetched, corpus, lost>>
\* An answer, or none in time; a page too short to be an article is not kept.
Gives(u) == IF at = "render" THEN Painted(u) ELSE Answer(u)
Text(end) == IF at = "render" THEN Web[end].painted ELSE Web[end].text
Arrive(w) ==
  /\ Fetching /\ pool.busy[w] # 0
  /\ LET u == pool.urls[pool.busy[w]]
     IN \E end \in {Gives(u), None} :
          /\ lost' = IF end = Gives(u) THEN lost ELSE lost \cup {<<at, u>>}
          /\ Cardinality(lost') <= MaxTimeouts
          /\ pool' = [pool EXCEPT !.busy[w] = 0, !.got = Append(@, [index |-> pool.busy[w], end |-> end])]
          /\ fetched' = IF at # "walk" /\ end # None /\ Len(Text(end)) >= MinText
                        THEN Append(fetched, [url |-> u, text |-> Text(end)]) ELSE fetched
  /\ UNCHANGED <<at, robots, walk, corpus>>

\* The links of a level, page by page, until the limit; the raw page is read, menus and all.
Follow(w, u) ==
  IF u \in w.seen \/ u \notin InScope \/ u \in robots.disallow THEN w
  ELSE IF Len(w.found) >= DiscoverLimit THEN [w EXCEPT !.seen = @ \cup {u}]
  ELSE [w EXCEPT !.seen = @ \cup {u}, !.found = Append(@, u), !.level = Append(@, u)]
Deeper ==
  LET links == FlattenSeq([i \in DOMAIN pool.urls |-> IF Ordered[i] = None THEN <<>> ELSE Web[Ordered[i]].links])
  IN FoldLeft(Follow, [walk EXCEPT !.level = <<>>, !.depth = @ + 1], links)
LevelDone ==
  /\ at = "walk" /\ Drained
  /\ walk' = Deeper
  /\ IF walk'.depth <= MaxDepth /\ walk'.level # <<>> /\ Len(walk'.found) < DiscoverLimit
     THEN pool' = Pool(walk'.level) /\ UNCHANGED at
     ELSE at' = "found" /\ UNCHANGED pool
  /\ UNCHANGED <<robots, fetched, corpus, lost>>

(***************************************************************************)
(* What was found is written down as sources and crawled.  A sample tells  *)
(* whether fetching reads anything on this site.                           *)
(***************************************************************************)
Selected == First(SelectSeq(Distinct(walk.found), LAMBDA u : u \in Wanted), Limit)
Go(step, urls) == at' = step /\ pool' = Pool(urls)
Crawl ==
  /\ at = "found"
  /\ CASE Selected = <<>> -> at' = "done" /\ UNCHANGED pool
       [] Selected # <<>> /\ Mode = "always" -> Go("render", Selected)
       [] Selected # <<>> /\ Mode = "auto" /\ Len(Selected) > 2 * ProbeSize -> Go("probe", First(Selected, ProbeSize))
       [] OTHER -> Go("static", Selected)
  /\ UNCHANGED <<robots, walk, fetched, corpus, lost>>
TooFew(n, urls) == 100 * n < Threshold * Max({1, Len(urls)})
Probed ==
  /\ at = "probe" /\ Drained
  /\ IF TooFew(Len(fetched), pool.urls)
     THEN fetched' = <<>> /\ Go("render", Selected)
     ELSE Go("static", SubSeq(Selected, ProbeSize + 1, Len(Selected))) /\ UNCHANGED fetched
  /\ UNCHANGED <<robots, walk, corpus, lost>>
\* wrong: what was read is rendered as well
MissingAll == Selected
Missing == SelectSeq(Selected, LAMBDA u : \A i \in DOMAIN fetched : fetched[i].url # u)
Finishes == at' = "done" /\ corpus' = Kept(Strip(fetched)) /\ UNCHANGED pool
StaticDone ==
  /\ at = "static" /\ Drained
  /\ IF Mode # "off" /\ TooFew(Len(fetched), Selected) /\ Missing # <<>>
     THEN Go("render", Missing) /\ UNCHANGED corpus
     ELSE Finishes
  /\ UNCHANGED <<robots, walk, fetched, lost>>
Rendered == at = "render" /\ Drained /\ Finishes /\ UNCHANGED <<robots, walk, fetched, lost>>

Next ==
  \/ ReadRobots \/ TrySitemap
  \/ \E w \in Slots : Take(w) \/ Arrive(w)
  \/ LevelDone \/ Crawl \/ Probed \/ StaticDone \/ Rendered
Spec == Init /\ [][Next]_vars

-----------------------------------------------------------------------------
(* What is acquired depends on the site and on the fetches given up, never  *)
(* on the order of the answers: the walk finds every page of the section    *)
(* within MaxDepth + 1 hops that the rules allow (no more than the limit),  *)
(* each selected page is read at most once and missed only when it could    *)
(* not be read, and of the paragraphs left when shared ones are dropped     *)
(* every beginning of a chunk is kept, once.                                *)
(* (discoverLinks' levels, the pools' cursors, runCrawl's render fallback)  *)
Links(u) == IF Answer(u) = None \/ <<"walk", u>> \in lost THEN {} ELSE Range(Web[Answer(u)].links) \cap (InScope \ robots.disallow)
Reach[d \in 0 .. MaxDepth + 1] == IF d = 0 THEN {Seed} ELSE Reach[d - 1] \cup UNION {Links(u) : u \in Reach[d - 1]}
Reads(u, by) ==
  /\ <<by, u>> \notin lost
  /\ IF by = "render" THEN Painted(u) # None /\ Len(Web[Painted(u)].painted) >= MinText
     ELSE Answer(u) # None /\ Len(Web[Answer(u)].text) >= MinText
WalkIsWhole ==
  LET found == Range(walk.found)
  IN /\ IsInjective(walk.found)
     /\ IF Cardinality(Reach[MaxDepth + 1]) <= DiscoverLimit THEN found = Reach[MaxDepth + 1]
        ELSE found \subseteq Reach[MaxDepth + 1] /\ Len(walk.found) = DiscoverLimit
ReadOnce ==
  LET got == [u \in {p.url : p \in Range(fetched)} |-> {p.text : p \in {q \in Range(fetched) : q.url = u}}]
      plain == {u \in Range(Selected) : Reads(u, "static") /\ <<"probe", u>> \notin lost}
  IN /\ Len(fetched) = Cardinality(DOMAIN got)
     /\ DOMAIN got \subseteq Range(Selected)
     /\ \/ DOMAIN got = plain
        \/ \A u \in Range(Selected) : IF u \in DOMAIN got THEN u \in plain \/ Reads(u, "render") ELSE ~Reads(u, "render")
ShownTwice(ps) ==
  IF Cardinality(ps) < FewPages THEN {}
  ELSE {l \in Repeatable : Cardinality({p \in ps : Contains(p.text, l)}) >= Max({LeastRepeats, (Cardinality(ps) * Share) \div 100})}
KeptIsLeft ==
  LET left == {SelectSeq(p.text, LAMBDA l : l \notin ShownTwice(Range(fetched))) : p \in Range(fetched)}
      starts == {First(c, Finger) : c \in UNION {Range(Chunks(t)) : t \in left}}
  IN /\ {Fingerprint(c.text) : c \in Range(corpus)} = starts
     /\ Len(corpus) = Cardinality(starts)
AcquiresTheSite ==
  /\ at = "found" /\ robots.sitemaps = <<>> => WalkIsWhole
  /\ at = "done" => ReadOnce /\ KeptIsLeft
=============================================================================
