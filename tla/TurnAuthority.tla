----------------------------- MODULE TurnAuthority -----------------------------
(***************************************************************************)
(* Who decides what an ordinary turn may do to the page.  "The model       *)
(* supplies meaning; local catalog validation supplies authority": the     *)
(* planner's model names an intent and a target, the runtime looks up the  *)
(* signed catalog, finds the route to a screen itself, and releases a      *)
(* journey, a part of one, or a route; what no catalog covers goes to the  *)
(* dynamic agent where the installation has one.  TurnActor has the same   *)
(* turn with its messages and interruptions, and without this data.        *)
(***************************************************************************)
EXTENDS Naturals, Sequences, FiniteSets

CONSTANTS
  Screens, ControlIds, JourneyIds, Roles,
  Catalogs,       \* what a session may be pinned to, see CatalogsAssumption
  Replies,        \* what the planner's model may return
  Views,          \* what an observation of the page may show
  Proposals,      \* what the dynamic agent's model may return
  MaxEdges,       \* steps of a route: 4 in the code
  MaxIterations,  \* dynamicMode.maxIterationsPerTurn
  Nowhere         \* no screen, no journey

VARIABLES
  pin,      \* the session's catalog and role, chosen once; dynamic: its mode is on
            \* and no demo runs
  talk,     \* where the turn is: [at, active, named, tries, iter, part]
  plan,     \* TurnPlan
  seen,     \* EvidenceSet: [source, screen, controls, fresh, observed]
  search,   \* the search for a route: [queue, reached, next, route]
  outcome   \* what came of the turn, or of the agent's last step

authorityVars == <<pin, talk, plan, seen, search, outcome>>

Hops == [source : Screens, control : ControlIds, target : Screens]
Foreign == {"extension", "human", "unsupported"}
ToolKinds == {"click", "fill", "select", "check", "uncheck", "hover", "scroll", "navigate", "wait", "read"}
Executes == {"execute", "execute_then_observe_and_answer"}

\* A catalog as signed (roles, an empty set being everyone; controls; journeys)
\* and as compiled into the bundle the planner reads (known screens, moves).
CatalogsAssumption ==
  /\ Nowhere \notin Screens \cup JourneyIds /\ MaxEdges \in Nat /\ MaxIterations \in Nat
  /\ \A c \in Catalogs :
       /\ c.role \in Roles
       /\ DOMAIN c.screens \subseteq Screens /\ DOMAIN c.controls \subseteq ControlIds
       /\ DOMAIN c.journeys \subseteq JourneyIds /\ \A j \in DOMAIN c.journeys : DOMAIN c.journeys[j].steps \subseteq Nat
       /\ DOMAIN c.known \subseteq Screens
       /\ c.moves \in Seq([from : Screens, to : Screens \cup {Nowhere}, control : ControlIds, sure : BOOLEAN, roles : SUBSET Roles])
ASSUME CatalogsAssumption

NoPart == [journey |-> Nowhere, from |-> 0]
Idle == [at |-> "idle", active |-> "none", named |-> FALSE, tries |-> 0, iter |-> 0, part |-> NoPart]
NoPlan == [intent |-> "conversation", mode |-> "answer", control |-> "none", acts |-> FALSE, tried |-> FALSE, shows |-> FALSE,
           asks |-> FALSE, journey |-> Nowhere, goal |-> Nowhere, inputs |-> {}]
Unseen == [source |-> Nowhere, screen |-> Nowhere, controls |-> {}, fresh |-> FALSE, observed |-> FALSE]
NoSearch == [queue |-> <<>>, reached |-> {}, next |-> 1, route |-> <<>>]
Ended(kind) == [kind |-> kind, journey |-> Nowhere, from |-> 0, inputs |-> {}, route |-> <<>>, tool |-> "none", confirm |-> FALSE]

AuthorityInit ==
  /\ pin \in Catalogs
  /\ talk = Idle /\ plan = NoPlan /\ seen = Unseen /\ search = NoSearch /\ outcome = Ended("none")

For(roles) == roles = {} \/ pin.role \in roles
At(stage) == talk' = [talk EXCEPT !.at = stage]
Conclude(result) == talk' = [talk EXCEPT !.at = "idle"] /\ outcome' = result

-----------------------------------------------------------------------------
(* The planner *)

Executable(j) ==
  /\ j \in DOMAIN pin.journeys
  /\ pin.journeys[j].state = "approved" /\ For(pin.journeys[j].roles) /\ pin.journeys[j].classes \cap Foreign = {}
NoneApproved == \A j \in DOMAIN pin.journeys : pin.journeys[j].state # "approved"

\* Each decision in its own field; a named kind of target needs an id.
Usable(r) ==
  /\ r.called /\ (r.kind = "none" <=> r.id = Nowhere)
  /\ r.strategy = "navigate" => r.kind = "screen"
  /\ r.strategy \in Executes => r.kind \in {"journey", "module"}
  /\ r.strategy = "clarify" => r.asks
SafeReply == [called |-> TRUE, intent |-> "conversation", strategy |-> "clarify", disposition |-> "side_question", kind |-> "none",
              id |-> Nowhere, inputs |-> {}, asks |-> TRUE]

TargetOf(r) ==
  IF r.kind = "journey" THEN r.id
  ELSE IF r.kind = "module" /\ r.id \in DOMAIN pin.modules THEN pin.modules[r.id] ELSE Nowhere
GoalOf(r) == IF r.strategy = "navigate" /\ r.kind = "screen" /\ r.id \in DOMAIN pin.known THEN r.id ELSE Nowhere
\* What becomes of a journey under way.
ControlOf(r, mode, acts) ==
  LET said == IF mode \in Executes /\ r.disposition # "continue" THEN "replace" ELSE r.disposition IN
  IF talk.active = "none" THEN "none"
  ELSE IF said = "none" \/ (said = "replace" /\ ~acts) THEN "side_question" ELSE said
PlanOf(r) ==
  LET target == TargetOf(r)
      goal == GoalOf(r)
      wants == r.strategy \in Executes \cup {"navigate"}
      lacks == \/ r.intent = "action" /\ r.strategy = "answer" /\ r.kind = "none"
               \/ r.strategy = "navigate" /\ goal = Nowhere
               \/ r.strategy \in Executes /\ ~Executable(target)
      mode == IF r.asks THEN "clarify" ELSE IF wants /\ ~Executable(target) /\ goal = Nowhere THEN "answer" ELSE r.strategy
      acts == (mode = "navigate" /\ goal # Nowhere) \/ (mode \in Executes /\ Executable(target))
  IN [intent |-> r.intent, mode |-> mode, control |-> ControlOf(r, mode, acts), acts |-> acts,
      tried |-> wants \/ (r.intent = "action" /\ lacks),
      shows |-> mode = "execute_then_observe_and_answer" /\ Executable(target) /\ pin.journeys[target].risk = "read",
      asks |-> r.asks,
      journey |-> IF acts /\ mode # "navigate" /\ Executable(target) THEN target ELSE Nowhere,
      goal |-> goal, inputs |-> IF acts /\ Executable(target) THEN r.inputs ELSE {}]

\* A turn begins, with a journey, perhaps paused before a step, or a route of
\* steps under way, or neither.
Hear ==
  /\ talk.at = "idle"
  /\ \E active \in {"none", "journey", "paused", "route"}, named \in BOOLEAN :
       talk' = [Idle EXCEPT !.at = IF pin.dynamic /\ NoneApproved THEN "dynamic" ELSE "asked", !.active = active, !.named = named]
  /\ plan' = NoPlan /\ seen' = Unseen /\ search' = NoSearch /\ outcome' = Ended("none")
  /\ UNCHANGED pin

\* The first malformed reply is sent back once; after the second the turn
\* becomes a harmless question.
Reply ==
  /\ talk.at = "asked"
  /\ \E r \in Replies :
       IF Usable(r) \/ talk.tries = 1
       THEN plan' = PlanOf(IF Usable(r) THEN r ELSE SafeReply) /\ At("planned")
       ELSE talk' = [talk EXCEPT !.tries = 1] /\ UNCHANGED plan
  /\ UNCHANGED <<pin, seen, search, outcome>>

\* The model or its provider failed.
Fails ==
  /\ talk.at \in {"asked", "speaking", "dynamic"}
  /\ IF pin.dynamic /\ talk.at # "dynamic" THEN At("dynamic") /\ UNCHANGED outcome ELSE Conclude(Ended("failed"))
  /\ UNCHANGED <<pin, plan, seen, search>>

\* What is under way is stopped, or goes on where it paused, before anything else.
Heeds ==
  /\ talk.at = "planned" /\ talk.active # "none"
  /\ \/ plan.control = "stop" /\ Conclude(Ended("stopped"))
     \/ plan.control = "continue" /\ talk.active = "paused" /\ Conclude(Ended("resumed"))
  /\ UNCHANGED <<pin, plan, seen, search>>

-----------------------------------------------------------------------------
(* The evidence: which known screen this is, and what of it is visible *)

Score(s, v) == (IF v.matched = s THEN 12 ELSE 0) + (IF s \in v.prints THEN 10 ELSE 0) + v.urls[s]
ForRole(s) == For(pin.known[s].roles)
\* The overlap of controls is worth less than any other difference.
Likeliest(v) ==
  {s \in DOMAIN pin.known : ForRole(s) /\ Score(s, v) >= 2 /\ \A t \in DOMAIN pin.known : ForRole(t) => Score(t, v) =< Score(s, v)}
ShownOn(s, v) == IF s = Nowhere THEN {} ELSE DOMAIN pin.known[s].controls \cap v.visible

Heeded == talk.active # "none" /\ (plan.control = "stop" \/ (plan.control = "continue" /\ talk.active = "paused"))
Looks == plan.mode \in {"observe_then_answer", "navigate"}
\* The search starts where SDK and bundle agree that the page is.
Agreed(e) == plan.goal # Nowhere /\ e.source # Nowhere /\ e.screen = e.source
Aimed(e) == Agreed(e) /\ e.source # plan.goal
Start(s) == [NoSearch EXCEPT !.queue = <<[at |-> s, steps |-> <<>>]>>, !.reached = {s}]
Look ==
  /\ talk.at = "planned" /\ ~Heeded
  /\ \/ \E v \in Views : \E s \in IF Likeliest(v) = {} THEN {Nowhere} ELSE Likeliest(v) :
          seen' = [source |-> v.matched, screen |-> s, controls |-> ShownOn(s, v), fresh |-> Looks, observed |-> TRUE]
     \/ ~Looks /\ seen' = Unseen          \* nothing was observed yet
  /\ IF Aimed(seen') THEN At("searching") /\ search' = Start(seen'.source) ELSE At("routed") /\ UNCHANGED search
  /\ UNCHANGED <<pin, plan, outcome>>
\* The page could not be read in time.
Blind ==
  /\ talk.at = "planned" /\ ~Heeded /\ Looks
  /\ Conclude(Ended("failed")) /\ UNCHANGED <<pin, plan, seen, search>>

-----------------------------------------------------------------------------
(* approvedCatalogNavigationPlan: breadth first, at most MaxEdges deep, the *)
(* edges in the bundle's order; nothing comes between its steps.            *)

ReadControl(c, s) == c \in DOMAIN pin.controls /\ pin.controls[c].screen = s /\ pin.controls[c].risk = "read"
SignedFor(s) == s \in DOMAIN pin.screens /\ For(pin.screens[s])
\* wrong: the move is looked up in the bundle only, not in what was signed
FollowsUnsigned(m, s) ==
  /\ m.from = s /\ m.to # Nowhere /\ m.sure /\ For(m.roles)
  /\ s \in DOMAIN pin.known /\ m.control \in DOMAIN pin.known[s].controls /\ pin.known[s].controls[m.control] = "read"
Follows(m, s) ==
  /\ m.from = s /\ m.to # Nowhere /\ m.sure /\ For(m.roles)
  /\ s \in DOMAIN pin.known /\ m.control \in DOMAIN pin.known[s].controls /\ pin.known[s].controls[m.control] = "read"
  /\ SignedFor(s) /\ ReadControl(m.control, s) /\ SignedFor(m.to)

Found(steps) == IF steps[1].control \in seen.controls THEN steps ELSE <<>>
NextEntry == [search EXCEPT !.queue = Tail(@), !.next = 1]
NextMove == [search EXCEPT !.next = @ + 1]
Search ==
  /\ talk.at = "searching" /\ UNCHANGED <<pin, plan, seen, outcome>>
  /\ \/ search.queue = <<>> /\ At("routed") /\ UNCHANGED search
     \/ /\ search.queue # <<>>
        /\ LET head == Head(search.queue) IN
           IF Len(head.steps) >= MaxEdges \/ search.next > Len(pin.moves)
           THEN search' = NextEntry /\ UNCHANGED talk
           ELSE LET m == pin.moves[search.next]
                    steps == Append(head.steps, [source |-> head.at, control |-> m.control, target |-> m.to])
                IN IF ~Follows(m, head.at) THEN search' = NextMove /\ UNCHANGED talk
                   ELSE IF m.to = plan.goal THEN search' = [search EXCEPT !.route = Found(steps)] /\ At("routed")
                   ELSE IF m.to \in search.reached THEN search' = NextMove /\ UNCHANGED talk
                   ELSE /\ search' = [NextMove EXCEPT !.queue = Append(@, [at |-> m.to, steps |-> steps]), !.reached = @ \cup {m.to}]
                        /\ UNCHANGED talk

-----------------------------------------------------------------------------
(* approvedNavigationSegment: one step of an approved journey that starts on *)
(* this screen and is verified on the one asked for.                         *)

Ways == {m \in {pin.moves[i] : i \in DOMAIN pin.moves} : m.from = seen.source /\ m.to = plan.goal /\ m.sure /\ For(m.roles)}
Visible(m) == m.control \in seen.controls /\ pin.known[seen.screen].controls[m.control] = "read"
StartsAt(j, i) == IF i = 1 THEN j.before ELSE j.steps[i - 1].checks
Leads(j, i, source, goal) ==
  /\ i + 1 \in DOMAIN j.steps
  /\ j.steps[i].kind = "action" /\ j.steps[i].risk = "read" /\ j.steps[i].class \notin Foreign
  /\ j.steps[i + 1].kind = "assert" /\ j.steps[i + 1].checks = goal
  /\ StartsAt(j, i) = source
  /\ j.steps[i].navigates => goal \in j.steps[i].lands
PartOf(j) == pin.journeys[j].state = "approved" /\ pin.journeys[j].risk = "read" /\ For(pin.journeys[j].roles)
Parts == UNION {{[journey |-> j, from |-> i] : i \in {k \in DOMAIN pin.journeys[j].steps : Leads(pin.journeys[j], k, seen.source, plan.goal)}} :
                 j \in {k \in DOMAIN pin.journeys : PartOf(k)}}
Served(m) == IF Visible(m) /\ Parts # {} THEN Parts ELSE {NoPart}
\* Which of several moves, and of several parts, comes first is the catalog's order.
Choices == IF search.route = <<>> /\ Agreed(seen) /\ Ways # {} THEN UNION {Served(m) : m \in Ways} ELSE {NoPart}

-----------------------------------------------------------------------------
(* TurnCoordinator.run, before and after its model *)

Chosen(p) == IF p # NoPart THEN p.journey ELSE IF Executable(plan.journey) THEN plan.journey ELSE Nowhere
Lacking(j) == IF j = Nowhere THEN {} ELSE pin.journeys[j].inputs \ plan.inputs
Gap(j) == (plan.tried \/ (plan.intent = "action" /\ seen.observed /\ talk.named)) /\ j = Nowhere /\ search.route = <<>>
Resolve ==
  /\ talk.at = "routed"
  /\ \E p \in Choices :
       LET j == Chosen(p) IN
       \/ Gap(j) /\ pin.dynamic /\ At("dynamic") /\ UNCHANGED outcome
       \/ Gap(j) /\ ~pin.dynamic /\ Conclude(Ended("refused"))
       \/ ~Gap(j) /\ (plan.asks \/ Lacking(j) # {}) /\ Conclude(Ended("ask"))
       \/ ~Gap(j) /\ ~plan.asks /\ Lacking(j) = {} /\ talk' = [talk EXCEPT !.at = "speaking", !.part = p] /\ UNCHANGED outcome
  /\ UNCHANGED <<pin, plan, seen, search>>

\* The model has answered; of a route only the first step is sent now.
Release ==
  /\ talk.at = "speaking"
  /\ LET j == Chosen(talk.part) IN
     Conclude(IF plan.acts /\ search.route # <<>> THEN [Ended("route") EXCEPT !.route = search.route]
            ELSE IF plan.acts /\ talk.part # NoPart THEN [Ended("part") EXCEPT !.journey = j, !.from = talk.part.from, !.inputs = plan.inputs]
            ELSE IF plan.acts /\ j # Nowhere THEN [Ended("journey") EXCEPT !.journey = j, !.inputs = plan.inputs]
            ELSE Ended("answer"))
  /\ UNCHANGED <<pin, plan, seen, search>>

-----------------------------------------------------------------------------
(* The dynamic agent proposes one step at a time. *)

ToolRisk(tool) == IF tool \in {"read", "hover", "scroll", "wait"} THEN "read" ELSE "write"
AsksFirst(tool) == ToolRisk(tool) = "write" /\ ~pin.auto
Enabled == IF pin.tools = {} THEN ToolKinds ELSE pin.tools \cap ToolKinds
\* No decision can be read from the reply, or it names a tool that does not exist.
Unreadable(p) == ~p.called \/ (p.action = "tool" /\ p.tool \notin ToolKinds)
SaysOnly(p) == p.action \in {"answer", "ask", "done", "error"}
Capped == talk.iter = MaxIterations
Propose ==
  /\ talk.at = "dynamic"
  /\ \/ Capped /\ Conclude(Ended("capped"))
     \/ /\ ~Capped
        /\ \E p \in Proposals :
             \/ Unreadable(p) /\ Conclude(Ended(IF p.text /\ talk.iter = 0 THEN "answer" ELSE "failed"))
             \/ ~Unreadable(p) /\ SaysOnly(p) /\ Conclude(Ended("answer"))
             \/ ~Unreadable(p) /\ p.action = "tool" /\ p.tool \notin Enabled /\ Conclude(Ended("failed"))
             \/ ~Unreadable(p) /\ p.action = "tool" /\ Conclude(Ended("answer"))      \* repeated, or failed twice: see TurnActor
             \/ /\ ~Unreadable(p) /\ p.action \in {"plan", "narrate"}
                /\ talk' = [talk EXCEPT !.iter = @ + 1] /\ outcome' = Ended("none")
             \/ /\ ~Unreadable(p) /\ p.action = "tool" /\ p.tool \in Enabled
                /\ talk' = [talk EXCEPT !.iter = @ + 1]
                /\ outcome' = [Ended("tool") EXCEPT !.tool = p.tool, !.confirm = AsksFirst(p.tool)]
  /\ UNCHANGED <<pin, plan, seen, search>>

AuthorityNext == Hear \/ Reply \/ Fails \/ Heeds \/ Look \/ Blind \/ Search \/ Resolve \/ Release \/ Propose
AuthoritySpec == AuthorityInit /\ [][AuthorityNext]_authorityVars

-----------------------------------------------------------------------------
Stages == {"idle", "asked", "planned", "searching", "routed", "speaking", "dynamic"}
Talking == [at : Stages, active : {"none", "journey", "paused", "route"}, named : BOOLEAN, tries : {0, 1}, iter : 0 .. MaxIterations,
            part : [journey : JourneyIds \cup {Nowhere}, from : Nat]]
Searches == [queue : Seq([at : Screens, steps : Seq(Hops)]), reached : SUBSET Screens, next : Nat \ {0}, route : Seq(Hops)]
AuthorityTypeOK == pin \in Catalogs /\ talk \in Talking /\ search \in Searches /\ outcome.route \in Seq(Hops)

(***************************************************************************)
(* Whatever the model says, what is released is authorised.  A route: at    *)
(* most four steps, each through a read-only control the signed catalog has *)
(* on a screen signed for this role, each starting where the one before it  *)
(* ended, from the page as this turn observed it, through a control visible *)
(* there, to the screen that was asked for.  A journey: approved, for this  *)
(* role, runnable by the SDK, with every input it needs.  A part of one:    *)
(* the journey reads only, and the step is verified on the screen asked     *)
(* for.  A tool of the dynamic agent: one the installation has, confirmed   *)
(* unless it says that writes need not be.  And nothing while a question to *)
(* the visitor is open (turn-planner.ts plan, turn-coordinator.ts run).     *)
(***************************************************************************)
SignedHop(h) ==
  /\ h.source \in DOMAIN pin.screens /\ h.target \in DOMAIN pin.screens
  /\ \A s \in {h.source, h.target} : pin.screens[s] = {} \/ pin.role \in pin.screens[s]
  /\ h.control \in DOMAIN pin.controls /\ pin.controls[h.control].screen = h.source /\ pin.controls[h.control].risk = "read"
RouteIsAuthorised(route) ==
  /\ Len(route) \in 1 .. MaxEdges /\ \A i \in 1 .. Len(route) : SignedHop(route[i])
  /\ \A i \in 1 .. Len(route) - 1 : route[i].target = route[i + 1].source
  /\ seen.fresh /\ route[1].source = seen.source /\ route[1].control \in seen.controls
  /\ route[Len(route)].target = plan.goal
JourneyIsAuthorised(j, inputs) ==
  /\ j \in DOMAIN pin.journeys /\ pin.journeys[j].state = "approved"
  /\ pin.journeys[j].roles = {} \/ pin.role \in pin.journeys[j].roles
  /\ pin.journeys[j].inputs \subseteq inputs
ReleasedIsAuthorised ==
  /\ outcome.kind \in {"route", "part", "journey"} => ~plan.asks
  /\ outcome.kind = "route" => RouteIsAuthorised(outcome.route)
  /\ outcome.kind \in {"journey", "part"} => JourneyIsAuthorised(outcome.journey, outcome.inputs)
  /\ outcome.kind = "journey" =>
       /\ pin.journeys[outcome.journey].classes \cap Foreign = {} /\ plan.goal = Nowhere
       /\ plan.shows => pin.journeys[outcome.journey].risk = "read"
  /\ outcome.kind = "part" =>
       /\ seen.fresh /\ pin.journeys[outcome.journey].risk = "read"
       /\ pin.journeys[outcome.journey].steps[outcome.from + 1].checks = plan.goal
  /\ outcome.kind = "tool" =>
       /\ outcome.tool \in ToolKinds /\ (pin.tools # {} => outcome.tool \in pin.tools)
       /\ outcome.tool \in {"click", "fill", "select", "check", "uncheck", "navigate"} => outcome.confirm \/ pin.auto
=============================================================================
