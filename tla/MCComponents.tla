---------------------------- MODULE MCComponents ----------------------------
(***************************************************************************)
(* Components that share no state, checked side by side: a behaviour       *)
(* belongs to one of them and leaves the variables of the others as they   *)
(* began.                                                                  *)
(***************************************************************************)
EXTENDS WorkflowExecutor, HostedTurns, CatalogPublication, CatalogContract, TurnAuthority, Continuity

VARIABLES part,
  messages, asking, did, sent                                                               \* ToolHistory

historyVars == <<messages, asking, did, sent>>
all == <<part, vars, contractVars, publicationVars, visitVars, hostedVars, historyVars, authorityVars>>

-----------------------------------------------------------------------------
(* Workflows: an approval around an optional step, and a loop around a branch. *)
S(kind, risk, optional, timed, then, max) ==
  [kind |-> kind, risk |-> risk, optional |-> optional, timed |-> timed, then |-> then, other |-> <<>>,
   max |-> max, compat |-> "direct", act |-> "click"]
Gated == [steps |-> [a |-> S("approval", 2, FALSE, FALSE, <<"b">>, 0),
                        b |-> S("action", 2, TRUE, TRUE, <<>>, 0),
                        c |-> S("action", 2, FALSE, FALSE, <<>>, 0)],
             top |-> <<"a", "c">>, risk |-> 1, startAt |-> 0, endAt |-> 2, checked |-> TRUE]
Looping == [steps |-> [l |-> S("loop", 1, TRUE, TRUE, <<"b", "d">>, 2),
                       b |-> S("branch", 1, FALSE, FALSE, <<"x">>, 0),
                       x |-> S("action", 1, TRUE, FALSE, <<>>, 0),
                       d |-> S("assert", 1, FALSE, FALSE, <<>>, 0),
                       y |-> [S("action", 1, FALSE, FALSE, <<>>, 0) EXCEPT !.compat = "resumable", !.act = "navigate"]],
            top |-> <<"l", "y">>, risk |-> 1, startAt |-> 0, endAt |-> 9, checked |-> FALSE]
Ws == {Gated, [Gated EXCEPT !.startAt = 1], Looping, [Looping EXCEPT !.startAt = 1], [Gated EXCEPT !.steps.c.compat = "unsupported", !.endAt = 1]}

-----------------------------------------------------------------------------
Plain == [kind |-> "action", act |-> "navigate", class |-> "direct", control |-> "nothing", screen |-> "nothing", tool |-> "nothing",
          inline |-> FALSE, risk |-> 1, continuity |-> FALSE, max |-> 0, then |-> <<>>, other |-> <<>>]
Steps == [go |-> [Plain EXCEPT !.class = "resumable", !.continuity = TRUE],
          ask |-> [Plain EXCEPT !.kind = "branch", !.act = "none", !.screen = "home", !.then = <<"press">>, !.other = <<"again">>],
          press |-> [Plain EXCEPT !.act = "click", !.control = "save"],
          again |-> [Plain EXCEPT !.kind = "loop", !.act = "none", !.screen = "home", !.max = 2, !.then = <<"type">>],
          type |-> [Plain EXCEPT !.act = "fill", !.control = "save"],
          call |-> [Plain EXCEPT !.act = "tool_call", !.class = "tool", !.tool = "send", !.risk = 3]]
Tour == [state |-> "approved", handoff |-> FALSE, demoSafe |-> TRUE, risk |-> 1, wrisk |-> 1, roles |-> {"member"}, audio |-> {},
         steps |-> Steps, top |-> <<"go", "ask", "call">>,
         listed |-> [s \in DOMAIN Steps |-> Steps[s].class]]
Profile == [questions |-> {"q1", "q2"}, personas |-> {"buyer"}, modules |-> [m |-> "tour"], default |-> <<"m">>, audio |-> {},
            playlists |-> [buyer |-> <<"m">>], generic |-> {"q1", "q2"}, personaQuestion |-> [buyer |-> "q1"]]
Play == [kind |-> "next_best_action", captures |-> FALSE, suggests |-> "tour", confirms |-> TRUE, personas |-> {"buyer"}, journeys |-> {"tour"}]
Published == [version |-> "v1", role |-> "member", channel |-> "production", expires |-> 0, sdk |-> TRUE,
         screens |-> [home |-> {"route", "save"}, bare |-> {}],
         controls |-> [save |-> [screen |-> "home", locators |-> 2, within |-> "nothing"],
                       ghost |-> [screen |-> "home", locators |-> 0, within |-> "save"]],
         tools |-> [send |-> [risk |-> 3, confirmation |-> "always"], note |-> [risk |-> 1, confirmation |-> "never"]],
         journeys |-> [tour |-> Tour], profile |-> Profile, plays |-> {Play}, audio |-> {"clip"}]

\* One thing of a journey, of a catalog, changed.
JourneyEdits(j) ==
  {[j EXCEPT !.steps.press.control = x] : x \in {"ghost", "lost"}} \cup {[j EXCEPT !.steps.type.control = "ghost", !.steps.type.inline = b] : b \in BOOLEAN}
  \cup {[j EXCEPT !.steps.ask.screen = x] : x \in {"bare", "lost"}} \cup {[j EXCEPT !.steps.again.max = x] : x \in {0, 21}}
  \cup {[j EXCEPT !.steps.call.risk = 1], [j EXCEPT !.steps.call.risk = 4], [j EXCEPT !.steps.call.tool = "note"], [j EXCEPT !.steps.call.tool = "lost"]}
  \cup {[j EXCEPT !.steps.press.class = x, !.listed.press = x] : x \in {"tool", "bridge"}} \cup {[j EXCEPT !.steps.call.class = "direct", !.listed.call = "direct"]}
  \cup {[j EXCEPT !.steps.go.continuity = FALSE], [j EXCEPT !.listed.go = "direct"], [j EXCEPT !.listed = [s \in {"go"} |-> "resumable"]]}
  \cup {[j EXCEPT !.risk = 2], [j EXCEPT !.wrisk = 2], [j EXCEPT !.wrisk = 3], [j EXCEPT !.state = "verified"], [j EXCEPT !.state = "verified", !.handoff = TRUE]}
  \cup {[j EXCEPT !.demoSafe = FALSE], [j EXCEPT !.roles = {"*"}], [j EXCEPT !.roles = {"guest"}], [j EXCEPT !.top = <<>>], [j EXCEPT !.audio = {"lost"}]}
  \cup {[j EXCEPT !.steps.press.act = "scroll", !.steps.press.control = "ghost"]}
ProfileEdits(p) ==
  {[p EXCEPT !.default = <<"m", "m">>], [p EXCEPT !.default = <<>>], [p EXCEPT !.modules = [m |-> "lost"]], [p EXCEPT !.generic = {"q1"}],
   [p EXCEPT !.personaQuestion = [buyer |-> "lost"]], [p EXCEPT !.playlists = [other |-> <<"m">>]], [p EXCEPT !.audio = {"lost"}]}
CatalogEdits(c) ==
  {c} \cup {[c EXCEPT !.journeys.tour = j] : j \in JourneyEdits(c.journeys.tour)} \cup {[c EXCEPT !.profile = p] : p \in ProfileEdits(c.profile)}
  \cup {[c EXCEPT !.plays = {[Play EXCEPT !.confirms = FALSE]}], [c EXCEPT !.plays = {[Play EXCEPT !.kind = "proof"]}]}
  \cup {[c EXCEPT !.expires = x] : x \in {1}} \cup {[c EXCEPT !.sdk = FALSE], [c EXCEPT !.version = "v2"], [c EXCEPT !.role = "guest"]}
  \cup {[c EXCEPT !.tools.send.confirmation = "policy"], [c EXCEPT !.tools.note.risk = 2], [c EXCEPT !.channel = "staging"]}
  \cup {[c EXCEPT !.controls.save.screen = "lost"], [c EXCEPT !.screens.home = {"lost"}], [c EXCEPT !.screens.home = {}]}
\* Every second change goes with one that makes the journey verified, staged or riskier.
Payloads == CatalogEdits(Published) \cup UNION {CatalogEdits(c) : c \in {[Published EXCEPT !.channel = "staging", !.journeys.tour.state = "verified"], [Published EXCEPT !.journeys.tour.wrisk = 2]}}
Signed(c) == [payload |-> c, digest |-> c, key |-> "k1", signed |-> c]
Envs == {Signed(c) : c \in Payloads} \cup {[Signed(Published) EXCEPT !.key = "k2"], [Signed(Published) EXCEPT !.signed = [Published EXCEPT !.expires = 9]]}
Srcs == {[kind |-> "inline", of |-> e] : e \in Envs}
        \cup {[kind |-> "remote", of |-> [digest |-> c, key |-> k]] : c \in {Published, [Published EXCEPT !.expires = 1]}, k \in {"k1", "k2"}}

TwoPins == {[version |-> v, role |-> "member"] : v \in {"v1", "v2"}}
SomeBatches == {<<>>, <<"flow", "act">>, <<"resume", "finish">>}

-----------------------------------------------------------------------------
(* A site of six screens: five moves lead from the first to the last, one   *)
(* more than a route may have; a tour verifies each screen it comes to.     *)
Move(f, t, c) == [from |-> f, to |-> t, control |-> c, sure |-> TRUE, roles |-> {}]
Moves == <<Move("home", "list", "toList"), Move("list", "home", "up"), Move("list", "nowhere", "toItem"), Move("list", "item", "toItem"),
           Move("item", "deep", "toDeep"), Move("deep", "far", "toFar"), Move("far", "end", "toEnd"), Move("item", "list", "up")>>
TourStep(kind, checks) == [kind |-> kind, risk |-> "read", class |-> "direct", checks |-> checks, navigates |-> FALSE, lands |-> {}]
Leading(from, to) ==
  [state |-> "approved", roles |-> {}, risk |-> "read", classes |-> {"direct"}, inputs |-> {}, before |-> from,
   steps |-> <<TourStep("action", "nowhere"), TourStep("assert", to),
               [TourStep("action", "nowhere") EXCEPT !.navigates = TRUE, !.lands = {"home"}], TourStep("assert", "home")>>]
OnScreen == [toList |-> "home", toItem |-> "list", toDeep |-> "item", toFar |-> "deep", toEnd |-> "far"]
Site ==
  [role |-> "member", dynamic |-> FALSE, auto |-> TRUE, tools |-> {}, moves |-> Moves, modules |-> [intro |-> "tour"],
   screens |-> [s \in Screens |-> IF s = "item" THEN {"member"} ELSE {}],
   controls |-> [c \in DOMAIN OnScreen |-> [screen |-> OnScreen[c], risk |-> "read"]],
   known |-> [s \in Screens |-> [roles |-> {}, controls |-> [c \in {x \in DOMAIN OnScreen : OnScreen[x] = s} \cup {"up"} |-> "read"]]],
   journeys |-> [tour |-> Leading("item", "list"), order |-> [Leading("home", "item") EXCEPT !.risk = "write", !.inputs = {"name"}],
                 draft |-> [Leading("home", "item") EXCEPT !.state = "verified"], byhand |-> [Leading("list", "item") EXCEPT !.classes = {"human"}]]]
\* A site of one page, with nothing on it.
Bare ==
  [Site EXCEPT !.moves = <<>>, !.modules = [m \in {} |-> "tour"], !.screens = [s \in {"home"} |-> {}], !.controls = [c \in {} |-> Site.controls.toList],
   !.known = [s \in {"home"} |-> [roles |-> {}, controls |-> [c \in {} |-> "read"]]], !.journeys = [j \in {} |-> Site.journeys.tour]]
Sites ==
  {Bare, Site, [Site EXCEPT !.controls.toItem.risk = "write"], [Site EXCEPT !.screens.item = {"guest"}], [Site EXCEPT !.moves[5].sure = FALSE],
   [Site EXCEPT !.moves[4].roles = {"guest"}, !.dynamic = TRUE, !.auto = FALSE],
   [Site EXCEPT !.known["list"].controls.toItem = "write", !.journeys.order.roles = {"guest"}],
   [Site EXCEPT !.dynamic = TRUE, !.tools = {"read", "click", "shout"}, !.journeys = [j \in {"draft"} |-> Site.journeys.draft]]}
Targets ==
  {<<"none", "nowhere">>, <<"none", "home">>, <<"journey", "lost">>, <<"module", "intro">>} \cup ({"journey"} \X {"tour", "order", "draft", "byhand"})
  \cup ({"screen"} \X {"lost", "list", "item", "far", "end"})
\* What a journey under way, inputs and a question do is asked of some targets.
PlanReplies ==
  {[called |-> FALSE]} \cup
  {r \in {[called |-> TRUE, intent |-> i, strategy |-> s, disposition |-> d, kind |-> w[1], id |-> w[2], inputs |-> x, asks |-> a] :
            i \in {"action", "how_to"}, s \in {"answer", "observe_then_answer", "navigate", "clarify"} \cup Executes,
            d \in {"none", "stop", "continue"}, w \in Targets, x \in {{}, {"name"}}, a \in BOOLEAN} :
     /\ r.disposition # "none" => r.id \in {"nowhere", "tour", "far"} /\ ~r.asks
     /\ r.inputs # {} => r.id = "order" /\ ~r.asks
     /\ r.asks => r.id \in {"nowhere", "tour", "far"}}
View(matched, prints, visible) == [matched |-> matched, prints |-> prints, urls |-> [s \in Screens |-> 0], visible |-> visible]
\* In the last two the page matches no screen, or the address speaks for another.
SomeViews ==
  {View("home", {}, {"toList"}), View("home", {"home"}, {}), View("list", {}, {"toItem", "up"}), View("item", {}, {"toDeep", "up"}),
   View("nowhere", {}, {}), [View("home", {"list"}, {"toList", "toItem"}) EXCEPT !.urls["list"] = 4]}
SomeProposals ==
  {[called |-> FALSE, action |-> "none", tool |-> "none", text |-> t] : t \in BOOLEAN}
  \cup {[called |-> TRUE, action |-> a, tool |-> "none", text |-> TRUE] : a \in {"plan", "narrate", "answer"}}
  \cup {[called |-> TRUE, action |-> "tool", tool |-> t, text |-> TRUE] : t \in {"click", "read", "fill", "shout"}}

\* Two pages and what people do, or a third page and less.
Returns == INSTANCE Continuity WITH Tabs <- 1 .. 3, Procs <- 1 .. 2, Origins <- {"here"}, JourneyTurns <- {1}, NavTurns <- {2}, MaxActs <- 1
\* As many rounds as MaxMessages has room for.
Asks == INSTANCE ToolHistory WITH Turns <- 1 .. 2, MaxCalls <- 2, MaxRounds <- 2, MaxMessages <- 3

-----------------------------------------------------------------------------
AnyInit ==
  /\ part \in {"executor", "contract", "publication", "visits", "returns", "hosted", "history", "authority"}
  /\ Init /\ (part # "executor" => wf = Looping)
  /\ ContractInit /\ PublicationInit /\ HostedInit /\ (part # "hosted" => live.voice) /\ Asks!Init
  /\ AuthorityInit /\ (part # "authority" => pin = Bare)
  /\ IF part = "returns" THEN Returns!VisitInit ELSE VisitInit

Only(p) ==
  /\ part = p /\ UNCHANGED part
  /\ p # "executor" => UNCHANGED vars
  /\ p # "contract" => UNCHANGED contractVars
  /\ p # "publication" => UNCHANGED publicationVars
  /\ p \notin {"visits", "returns"} => UNCHANGED visitVars
  /\ p # "hosted" => UNCHANGED hostedVars
  /\ p # "history" => UNCHANGED historyVars
  /\ p # "authority" => UNCHANGED authorityVars
AnyNext ==
  \/ Only("executor") /\ Next
  \/ Only("contract") /\ ContractNext
  \/ Only("publication") /\ PublicationNext
  \/ Only("visits") /\ VisitNext
  \/ Only("returns") /\ Returns!VisitNext
  \/ Only("hosted") /\ HostedNext
  \/ Only("history") /\ Asks!Next
  \/ Only("authority") /\ AuthorityNext
AnySpec == AnyInit /\ [][AnyNext]_all

RequestsAreWhole == Asks!RequestsAreWhole
=============================================================================
