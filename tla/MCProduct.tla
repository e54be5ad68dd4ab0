------------------------------ MODULE MCProduct ------------------------------
(***************************************************************************)
(* How the product learns a customer's site and acts on it: the jobs that  *)
(* map it, the journeys trained from its product graph, the replays that   *)
(* prove them, the pages it acquires, the database that holds it all, and  *)
(* the browser SDK acting on the page in front of the visitor.  They share *)
(* no state: a behaviour belongs to one part and leaves the variables of   *)
(* the others as they began.                                               *)
(***************************************************************************)
EXTENDS MappingJobs, JourneyTraining, PageActions, PostgresStore

CONSTANTS j1, j2, w1, w2                                                     \* model values

VARIABLES part,
  data, client, ex, learned,                                                \* JourneyReplay
  at, robots, walk, pool, fetched, corpus, lost                             \* Crawl

replayVars == <<data, client, ex, learned>>
crawlVars == <<at, robots, walk, pool, fetched, corpus, lost>>
all == <<part, vars, trainingVars, replayVars, pageVars, crawlVars, databaseVars>>

-----------------------------------------------------------------------------
(* Two goals whose paths share their first control. *)
TwoPaths == [g1 |-> {<<"a">>}, g2 |-> {<<"a", "b">>}]
OneCapability == [g1 |-> "c", g2 |-> "c"]

-----------------------------------------------------------------------------
(* Five goals of a shop: the basket kept in the browser, an order, a record, *)
(* a form behind a first-visit dialog, a sorted list.                        *)
Documented(act, on) == [act |-> act, on |-> on, value |-> "none", submit |-> FALSE, optional |-> FALSE, from |-> "none", to |-> "none"]
Opening == <<Documented("click", "open")>>
Shopping == [
  put |-> [wants |-> "text", names |-> {"order"}, doc |-> Opening, uses |-> {"basket", "order", "text"}],
  buy |-> [wants |-> "text", names |-> {"order"}, doc |-> Opening, uses |-> {"basket", "order", "leave", "form", "text"}],
  add |-> [wants |-> "record_created", names |-> {"name"}, doc |-> Opening, uses |-> {"name", "save", "gotit", "more", "record_created"}],
  see |-> [wants |-> "screen_reached", names |-> {"form"}, doc |-> <<>>, uses |-> {"open", "advert", "gotit", "screen_reached"}],
  list |-> [wants |-> "result_set_changed", names |-> {"sort"}, uses |-> {"sort", "result_set_changed"},
            doc |-> <<Documented("navigate", "form"), Documented("click", "billing"), Documented("click", "open")>>]]
ToBuy == [g \in {"put", "buy"} |-> Shopping[g]]
ToRecord == [g \in {"add", "see", "list"} |-> Shopping[g]]
Bought == INSTANCE JourneyReplay WITH Goals <- ToBuy, MaxTurns <- 5,
            Profile <- FALSE, Allow <- TRUE, MaxAlignmentRejections <- 2
Recorded == INSTANCE JourneyReplay WITH Goals <- ToRecord, MaxTurns <- 3,
          Profile <- FALSE, Allow <- TRUE, MaxAlignmentRejections <- 2

-----------------------------------------------------------------------------
(* A list with an editable row, a field, a secret, the assistant's own      *)
(* button and a link away; it gains a second row, loses its text, becomes   *)
(* busy, or gives way to a form.                                            *)
El(slot, look) ==
  [slot |-> slot, look |-> look, role |-> "button", aria |-> "none", text |-> look, test_id |-> "none", agent_id |-> "none", css |-> "none",
   visible |-> TRUE, enabled |-> TRUE, private |-> FALSE, own |-> FALSE, interactive |-> TRUE, inside |-> 0, does |-> "script"]
Box == [El(1, "Row") EXCEPT !.interactive = FALSE, !.agent_id = "row"]
Edit(n) == [El(n, "Edit") EXCEPT !.inside = 1]
Field == [El(4, "Name") EXCEPT !.role = "textbox", !.does = "type", !.text = "none", !.test_id = "name"]
Secret == [El(5, "Code") EXCEPT !.private = TRUE, !.does = "type", !.test_id = "code"]
Helper == [El(6, "Name") EXCEPT !.own = TRUE]
Away == [El(7, "Leave") EXCEPT !.role = "link", !.does = "leave"]
List(text, els) == [url |-> "/list", title |-> "List", text |-> text, els |-> els]
Shop == [
  one |-> List({"People"}, <<Box, Edit(2), Field, Secret, Helper, Away>>),
  two |-> List({"People"}, <<Box, Edit(2), Edit(3), Field, Secret, Helper>>),
  quiet |-> List({}, <<Box, Edit(2), Field, Secret, Helper, Away>>),
  busy |-> List({}, <<Box, [Edit(2) EXCEPT !.enabled = FALSE], [Field EXCEPT !.visible = FALSE], Secret>>),
  form |-> [url |-> "/form", title |-> "Form", text |-> {"People"}, els |-> <<[Edit(2) EXCEPT !.inside = 0], Field>>]]

By(kind, value) == [kind |-> kind, value |-> value, within |-> "none"]
Anchor(kind, urls, value, weight) == [kind |-> kind, urls |-> urls, value |-> value, weight |-> weight]
Known == [
  controls |-> [edit |-> [locators |-> <<By("aria_role_name", "Edit"), By("css", "none-such")>>, closed |-> FALSE],
                row |-> [locators |-> <<By("agent_id", "row")>>, closed |-> FALSE],
                rowEdit |-> [locators |-> <<[By("relationship", "Edit") EXCEPT !.within = "row"]>>, closed |-> FALSE],
                name |-> [locators |-> <<By("label", "Name"), By("test_id", "name")>>, closed |-> FALSE],
                away |-> [locators |-> <<By("text", "Leave")>>, closed |-> FALSE],
                shadow |-> [locators |-> <<By("text", "Edit")>>, closed |-> TRUE]],
  screens |-> [list |-> [anchors |-> <<Anchor("route", {"/list"}, "none", 2), Anchor("text", {}, "People", 1), Anchor("control", {}, "edit", 1)>>,
                         minimum |-> 80, rank |-> 1],
               form |-> [anchors |-> <<Anchor("title", {}, "Form", 1)>>, minimum |-> 50, rank |-> 2]]]
A(kind, control) == [kind |-> kind, control |-> control, screen |-> "list", to |-> "here", until |-> "screen", fits |-> TRUE]
Signed == {A("click", "edit"), A("click", "rowEdit"), A("fill", "name"), A("hover", "edit"), A("scroll", "row"), A("click", "away"), A("click", "shadow"),
           [A("wait", "edit") EXCEPT !.until = "control"], [A("wait", "edit") EXCEPT !.until = "changed"], [A("wait", "edit") EXCEPT !.screen = "form"],
           [A("navigate", "edit") EXCEPT !.to = "far"], A("tool_call", "edit"), [A("select", "name") EXCEPT !.screen = "none"]}
T(tool, testId, name, role, id) == [tool |-> tool, target |-> [testId |-> testId, name |-> name, role |-> role, elementId |-> id]]
Requested == {T("click", "none", "Edit", "button", "none"), T("click", "code", "Name", "none", "none"), T("scroll", "none", "Row", "none", "none"),
          T("fill", "none", "Edit", "none", "none"), T("fill", "none", "none", "none", "x9")}
ASSUME LookingTells == TellsApart

-----------------------------------------------------------------------------
(* A site with a menu on its pages, a duplicate, a redirect, a missing      *)
(* page, a painted one, a way out; the same drawn by its scripts.           *)
Served(text, links) == [answers |-> "page", to |-> "s", links |-> links, text |-> text, painted |-> text, safe |-> TRUE]
Site == [s |-> Served(<<"menu", "s1", "s2", "s3">>, <<"a", "b", "out", "a">>),
         a |-> Served(<<"menu", "a1", "dup", "a2">>, <<"s", "r", "no", "c">>),
         b |-> Served(<<"menu", "dup", "b1">>, <<"c", "e", "far">>),
         c |-> [Served(<<"shell">>, <<"deep">>) EXCEPT !.painted = <<"menu", "c1", "c2">>],
         r |-> [Served(<<>>, <<>>) EXCEPT !.answers = "redirect", !.to = "a"],
         e |-> [Served(<<"oops", "sorry">>, <<>>) EXCEPT !.answers = "missing"],
         far |-> [Served(<<>>, <<>>) EXCEPT !.answers = "redirect", !.to = "in"],
         in |-> [Served(<<"x", "y">>, <<>>) EXCEPT !.safe = FALSE],
         no |-> Served(<<"n1", "n2">>, <<>>), out |-> Served(<<"o1", "o2">>, <<>>), deep |-> Served(<<"d1", "d2">>, <<"s">>)]
Robots == {<<>>, <<[key |-> "agent", value |-> FALSE], [key |-> "disallow", value |-> "b"], [key |-> "sitemap", value |-> "m"],
                   [key |-> "agent", value |-> TRUE], [key |-> "disallow", value |-> "no"]>>}
SiteMaps == [m |-> [index |-> TRUE, locs |-> <<"m1", "gone">>], m1 |-> [index |-> FALSE, locs |-> <<"s", "a", "out", "s">>]]
Crawler(ByScript) == INSTANCE Crawl WITH
  Web <- [u \in DOMAIN Site |-> [Site[u] EXCEPT !.text = IF u \in ByScript THEN <<"shell">> ELSE @]],
  Files <- Robots, Sitemaps <- SiteMaps, Seed <- "s", Default <- "top", InScope <- DOMAIN Site \ {"out", "in"}, Wanted <- DOMAIN Site \ {"out", "in"},
  Mode <- "auto", MaxDepth <- 1, DiscoverLimit <- 9, Limit <- 6, SitemapEnough <- 2, MaxRedirects <- 1, Slots <- {1, 2}, ProbeSize <- 2,
  Threshold <- 60, MinText <- 2, Target <- 2, Overlap <- 1, Finger <- 1, FewPages <- 3, LeastRepeats <- 2, Share <- 30,
  Repeatable <- {"menu", "dup"}, MaxTimeouts <- 2
ByScripts == DOMAIN Site \ {"s"}

-----------------------------------------------------------------------------
(* The database: two jobs map the journeys of two roles and people review    *)
(* them; one reports what it learns; two organizations publish and draft      *)
(* again; two workers host demos.  The constants of PostgresStore are those   *)
(* of the four together.                                                      *)
JobMap(by, journeys, screens, moves) == [job |-> by, journeys |-> journeys, screens |-> screens, moves |-> moves]
\* Both name a home, each as its survey reached it, and a list, described alike.
TwoMaps == {JobMap("first", [a |-> "text", b |-> "text"], [home |-> "entry", list |-> "list"], {<<"home", "list">>}),
            JobMap("second", [a |-> "other"], [home |-> "manager entry", list |-> "list"], {<<"home", "home">>})}
OneMap == {m \in TwoMaps : m.job = "second"}
Mapping == INSTANCE PostgresStore WITH
  Orgs <- {"o1"}, Versions <- {"v1"}, WorkerIds <- {"h1"},
  Sessions <- {}, Grants <- {}, Credentials <- {}, SignalIds <- {}, Events <- {}, Plays <- {}, MaxCalls <- 5, MaxPending <- 1
Reporting == INSTANCE PostgresStore WITH
  Orgs <- {"o1"}, Versions <- {"v1"}, WorkerIds <- {"h1"},
  Sessions <- {}, Grants <- {}, Credentials <- {}, SignalIds <- {}, Plays <- {}, MaxCalls <- 4, MaxPending <- 1
Drafting == INSTANCE PostgresStore WITH
  RoleKeys <- {"default"}, JobIds <- {"second"}, WorkerIds <- {"h1"}, Maps <- OneMap,
  Sessions <- {}, Grants <- {}, Credentials <- {}, SignalIds <- {}, Events <- {}, MaxPending <- 1
Hosting == INSTANCE PostgresStore WITH
  Orgs <- {"o1"}, RoleKeys <- {"default"}, Versions <- {"v1"}, JobIds <- {"second"}, Maps <- OneMap,
  Events <- {}, Plays <- {}, MaxCalls <- 6
ASSUME RowsAssumption == Sensible

-----------------------------------------------------------------------------
AnyInit ==
  /\ part \in {"jobs", "training", "bought", "kept", "driver", "served", "drawn", "mapping", "reporting", "drafting", "hosting"}
  /\ Init /\ TrainingInit /\ PageInit /\ (part # "driver" => page.of = "one") /\ Crawler({})!Init
  /\ IF part = "bought" THEN Bought!Init ELSE Recorded!Init
  /\ IF part = "hosting" THEN Hosting!DatabaseInit ELSE Mapping!DatabaseInit
Only(p) ==
  /\ part = p /\ UNCHANGED part
  /\ p # "jobs" => UNCHANGED vars
  /\ p # "training" => UNCHANGED trainingVars
  /\ p \notin {"bought", "kept"} => UNCHANGED replayVars
  /\ p # "driver" => UNCHANGED pageVars
  /\ p \notin {"served", "drawn"} => UNCHANGED crawlVars
  /\ p \notin {"mapping", "reporting", "drafting", "hosting"} => UNCHANGED databaseVars
AnyNext ==
  \/ Only("jobs") /\ Next
  \/ Only("training") /\ TrainingNext
  \/ Only("bought") /\ Bought!Next
  \/ Only("kept") /\ Recorded!Next
  \/ Only("driver") /\ PageNext
  \/ Only("served") /\ Crawler({})!Next
  \/ Only("drawn") /\ Crawler(ByScripts)!Next
  \/ Only("mapping") /\ Mapping!DatabaseNext
  \/ Only("reporting") /\ Reporting!DatabaseNext
  \/ Only("drafting") /\ Drafting!DatabaseNext
  \/ Only("hosting") /\ Hosting!DatabaseNext
\* A behaviour leaves the other parts as they began, so that states differ by
\* what their own part changes.
OwnState ==
  CASE part = "jobs" -> vars
    [] part = "training" -> trainingVars
    [] part \in {"bought", "kept"} -> replayVars
    [] part = "driver" -> pageVars
    [] part \in {"served", "drawn"} -> crawlVars
    [] OTHER -> databaseVars
OwnView == <<part, OwnState>>
AnySpec == AnyInit /\ [][AnyNext]_all

VerifiedReplays ==
  /\ part = "bought" => Bought!VerifiedReplays
  /\ part = "kept" => Recorded!VerifiedReplays
AcquiresTheSite ==
  /\ part = "served" => Crawler({})!AcquiresTheSite
  /\ part = "drawn" => Crawler(ByScripts)!AcquiresTheSite
=============================================================================
