---------------------------- MODULE PageActions ----------------------------
(***************************************************************************)
(* How the browser SDK touches the product's page (packages/web-sdk/src:   *)
(* action-driver, observer, resolver, recognizer, privacy, tools,          *)
(* dynamic-tools).  A step of a signed journey carries the observation it  *)
(* was decided on; the driver looks again before it acts, and again after  *)
(* every await.  A dynamic tool resolves a description and acts at once.   *)
(* The page belongs to the product: it changes whenever it likes, also     *)
(* because of what the driver does to it.                                  *)
(***************************************************************************)
EXTENDS Integers, Sequences, FiniteSets, FiniteSetsExt, SequencesExt

CONSTANTS Pages,       \* what the product may show: [url, title, text, els], els in document order
          Catalog,     \* [controls, screens]
          Actions,     \* actions of signed steps
          Commands,    \* commands of dynamic tools
          MinimumConfidence,
          MaxChanges,  \* bound: how often the product changes what it shows
          MaxSteps     \* bound: steps and commands

None == "none"
\* An element is one of its page by its slot.
ASSUME PagesAssumption ==
  /\ None \notin DOMAIN Pages
  /\ \A p \in DOMAIN Pages :
       /\ Pages[p].els \in Seq(Range(Pages[p].els))
       /\ \A e, d \in Range(Pages[p].els) : e.slot \in Nat /\ (e.slot = d.slot => e = d)

VARIABLES page,      \* [of, nodes, changes]: what is shown, by which generation of nodes, after how many changes
          settled,   \* whether what is shown has been observed
          watch,     \* DomScreenObserver: [version, last, queue, read]
          step,      \* what the driver is doing
          acted,     \* history: the last thing done to the page
          steps

pageVars == <<page, settled, watch, step, acted, steps>>

Shown(p) == Range(Pages[p].els)
Node(e, nodes) == <<e.slot, nodes>>

(***************************************************************************)
(* What an observation keeps of a page, and the screen it is taken for,    *)
(* for each page once.                                                     *)
(***************************************************************************)
Fingerprints == [p \in DOMAIN Pages |->
  LET open == SelectSeq(Pages[p].els, LAMBDA e : ~e.private /\ e.interactive)
  IN [url |-> Pages[p].url, title |-> Pages[p].title, els |-> [i \in DOMAIN open |-> <<open[i].look, open[i].visible, open[i].enabled>>]]]
Fingerprint(p) == Fingerprints[p]

\* Locators a screen's anchor may be recognised by; the others prove nothing there.
Suggests(l, p) ==
  \E e \in Shown(p) : ~e.private /\ e.visible /\ e.interactive
    /\ \/ l.kind \in {"agent_id", "test_id"} /\ e[l.kind] = l.value
       \/ l.kind \in {"aria_role_name", "label", "text"} /\ e.look = l.value
Matches(a, p) ==
  CASE a.kind = "route" -> Pages[p].url \in a.urls
    [] a.kind = "title" -> Pages[p].title = a.value
    [] a.kind = "text" -> a.value \in Pages[p].text
    [] a.kind = "control" -> \E l \in Range(Catalog.controls[a.value].locators) : Suggests(l, p)
Weight(anchors, on) == MapThenSumSet(LAMBDA i : anchors[i].weight, on)
\* In hundredths.
Confidence(s, p) ==
  LET anchors == Catalog.screens[s].anchors
      possible == Weight(anchors, DOMAIN anchors)
  IN IF possible = 0 THEN 0 ELSE (100 * Weight(anchors, {i \in DOMAIN anchors : Matches(anchors[i], p)})) \div possible
\* The best screen is the page's screen if it is good enough; of equals the first.
Better(s, t, p) ==
  \/ Confidence(s, p) > Confidence(t, p)
  \/ Confidence(s, p) = Confidence(t, p) /\ Catalog.screens[s].rank < Catalog.screens[t].rank
Recognized == [p \in DOMAIN Pages |->
  LET best == CHOOSE s \in DOMAIN Catalog.screens : \A t \in DOMAIN Catalog.screens \ {s} : Better(s, t, p)
  IN IF Confidence(best, p) >= Max({MinimumConfidence, Catalog.screens[best].minimum}) THEN best ELSE None]
Recognize(p) == Recognized[p]

(***************************************************************************)
(* Signed controls: locators in rank order, earlier and stronger ones      *)
(* score higher; the best element must be alone at its score.              *)
(***************************************************************************)
Able(e, opts) == (opts.visible => e.visible) /\ (opts.enabled => e.enabled)
Usable(e, opts) == ~e.private /\ ~e.own /\ Able(e, opts)
Bonus == [agent_id |-> 30, test_id |-> 20, aria_role_name |-> 15, label |-> 10, text |-> 0, css |-> -20, relationship |-> 5]
Direct(l, p, opts) ==
  LET named == {e \in Shown(p) : e.look = l.value}
  IN CASE l.kind \in {"agent_id", "test_id", "css"} -> {e \in Shown(p) : e[l.kind] = l.value}
       [] l.kind = "aria_role_name" /\ opts.static -> named
       [] l.kind = "text" /\ opts.static -> {e \in named : ~e.interactive}
       [] OTHER -> {e \in named : e.interactive}
\* The elements at the top score.
Top(locators, hits(_), p, opts) ==
  LET score(e) == Max({-100} \cup {100 - 5 * (i - 1) + Bonus[locators[i].kind] : i \in {j \in DOMAIN locators : e \in hits(locators[j])}})
      scored == {e \in Shown(p) : Usable(e, opts) /\ score(e) >= 1}
  IN {e \in scored : \A d \in scored : score(d) <= score(e)}
First(es) == IF es = {} THEN {} ELSE {CHOOSE e \in es : \A d \in es : e.slot <= d.slot}
\* Inside the first best match of the container, whether or not it is alone.
Inside(l, p, opts) ==
  LET direct == SelectSeq(Catalog.controls[l.within].locators, LAMBDA m : m.kind # "relationship")
      box == First(Top(direct, LAMBDA m : Direct(m, p, opts), p, opts))
  IN {e \in Shown(p) : e.interactive /\ e.look = l.value /\ e.inside \in {b.slot : b \in box}}
Hits(l, p, opts) == IF l.kind = "relationship" THEN Inside(l, p, opts) ELSE Direct(l, p, opts)
Best(control, p, opts) ==
  IF Catalog.controls[control].closed THEN {}
  ELSE Top(Catalog.controls[control].locators, LAMBDA l : Hits(l, p, opts), p, opts)
Resolves(control, p, opts) == LET b == Best(control, p, opts) IN IF Cardinality(b) = 1 THEN b ELSE {}

Options(act) == [visible |-> act # "scroll", enabled |-> act \notin {"hover", "scroll"}, static |-> act = "scroll"]

(***************************************************************************)
(* Descriptions of dynamic tools: signals in a fixed order, the first that *)
(* matches anything decides, with the first of several matches.            *)
(***************************************************************************)
Signals(t, p, opts) ==
  LET usable == {e \in Shown(p) : Usable(e, opts)}
      active == {e \in usable : e.interactive}
      shown == {e \in Shown(p) : ~e.private /\ ~e.own /\ e.visible}
  IN <<{e \in usable : t.testId # None /\ e.test_id = t.testId},
       {e \in usable : t.name # None /\ e.aria = t.name},
       {e \in active : t.name # None /\ t.role = e.role /\ e.look = t.name},
       {e \in active : t.name # None /\ e.look = t.name},
       {e \in active : t.name # None /\ e.text = t.name},
       {e \in shown : t.name # None /\ e.text = t.name},     \* a leaf, enabled or not
       {e \in active : t.elementId # None /\ Cardinality(active) = 1}>>
Described(t, p, opts) ==
  LET s == Signals(t, p, opts)
      at == {i \in DOMAIN s : s[i] # {}}
  IN IF at = {} THEN {} ELSE First(s[Min(at)])

-----------------------------------------------------------------------------
Rest == [pc |-> "rest"]
NoAct == [by |-> None]

PageInit ==
  /\ page \in [of : DOMAIN Pages, nodes : {0}, changes : {0}]
  /\ settled = TRUE
  /\ watch = [version |-> 0, last |-> None, queue |-> <<>>, read |-> None]
  /\ step = Rest
  /\ acted = NoAct
  /\ steps = 0

(***************************************************************************)
(* The product changes what it shows, in the same nodes or in new ones.  A *)
(* page rests long enough to be observed before it changes again.          *)
(***************************************************************************)
Becomes(p, fresh) ==
  /\ page.changes < MaxChanges
  /\ page' = [of |-> p, nodes |-> page.nodes + (IF fresh THEN 1 ELSE 0), changes |-> page.changes + 1]
  /\ settled' = FALSE
Changes == settled /\ (\E p \in DOMAIN Pages, fresh \in BOOLEAN : (fresh \/ p # page.of) /\ Becomes(p, fresh)) /\ UNCHANGED <<watch, step, acted, steps>>
\* What a focus, a click or a value does to the page: nothing, or a change.
Reacts == \/ UNCHANGED <<page, settled>>
          \/ settled /\ \E p \in DOMAIN Pages, fresh \in BOOLEAN : Becomes(p, fresh)

(***************************************************************************)
(* Observations queue.  One reads the page at once, and is there when its  *)
(* digest is: the page may be another by then.                             *)
(***************************************************************************)
Enqueues(who) == watch' = [watch EXCEPT !.queue = Append(@, who)]
Scheduled == ~settled /\ watch.queue = <<>> /\ Enqueues("schedule") /\ UNCHANGED <<page, settled, step, acted, steps>>
Reads ==
  /\ watch.queue # <<>> /\ watch.read = None
  /\ watch' = [watch EXCEPT !.read = page.of]
  /\ settled' = TRUE
  /\ UNCHANGED <<page, step, acted, steps>>
Observed == [watch EXCEPT !.version = IF watch.last = None \/ Fingerprint(watch.read) # Fingerprint(watch.last) THEN @ + 1 ELSE @,
                          !.last = watch.read, !.read = None, !.queue = Tail(@)]
Seen == [version |-> Observed.version, page |-> watch.read]
Returned(who) == watch.read # None /\ Head(watch.queue) = who
NoticedBySchedule == Returned("schedule") /\ watch' = Observed /\ UNCHANGED <<page, settled, step, acted, steps>>

Same(seen, expected) == seen.version = expected.version /\ Fingerprint(seen.page) = Fingerprint(expected.page)

(***************************************************************************)
(* The driver.  A step is decided on an observation; it is performed later.*)
(***************************************************************************)
Fails == step' = Rest
Decide(a) ==
  /\ step.pc = "rest" /\ steps < MaxSteps
  /\ steps' = steps + 1
  /\ step' = [pc |-> "deciding", act |-> a]
  /\ Enqueues("driver")
  /\ UNCHANGED <<page, settled, acted>>
Decided ==
  /\ step.pc = "deciding" /\ Returned("driver")
  /\ watch' = Observed
  /\ step' = [pc |-> "decided", act |-> step.act, expected |-> Seen]
  /\ UNCHANGED <<page, settled, acted, steps>>
Perform ==
  /\ step.pc = "decided"
  /\ \/ step' = [step EXCEPT !.pc = "looking"] /\ Enqueues("driver")
     \/ Fails /\ UNCHANGED watch      \* aborted
  /\ UNCHANGED <<page, settled, acted, steps>>

\* The kinds that touch a control.
Touching == {"click", "fill", "select", "hover", "keypress"}
OnScreen(a, p) == a.screen = None \/ Recognize(p) = a.screen
Effect(by, node) == [by |-> by, act |-> step.act, node |-> node, on |-> page.of, read |-> None, expected |-> None]

\* The page has not changed since the step was decided: the control is looked for, and the page looked at again.
Looked ==
  /\ step.pc = "looking" /\ Returned("driver")
  /\ LET a == step.act
         same == Same(Seen, step.expected)
     IN \/ /\ a.kind = "wait" \/ (same /\ a.kind \in {"navigate", "tool_call"})
           /\ watch' = Observed
           /\ step' = [step EXCEPT !.pc = a.kind]
           /\ UNCHANGED <<page, settled, acted>>
        \/ /\ a.kind = "scroll" /\ same /\ OnScreen(a, Seen.page)
           /\ watch' = Observed
           /\ \E e \in Resolves(a.control, page.of, Options("scroll")) : acted' = [Effect("scroll", Node(e, page.nodes)) EXCEPT !.read = page.of, !.expected = step.expected.page]
           /\ Fails /\ Reacts
        \/ /\ a.kind \in Touching /\ same /\ OnScreen(a, Seen.page)
           /\ \E e \in Resolves(a.control, page.of, Options(a.kind)) :
                step' = [pc |-> "resolved", act |-> a, expected |-> step.expected, node |-> Node(e, page.nodes)]
           /\ watch' = [Observed EXCEPT !.queue = Append(@, "driver")]
           /\ UNCHANGED <<page, settled, acted>>
        \/ /\ a.kind # "wait"
           /\ \/ ~same
              \/ a.kind \notin {"navigate", "tool_call"} /\ (~OnScreen(a, Seen.page) \/ Resolves(a.control, page.of, Options(a.kind)) = {})
           /\ watch' = Observed
           /\ Fails /\ UNCHANGED <<page, settled, acted>>
  /\ UNCHANGED steps

Connected(node) == node[2] = page.nodes /\ \E e \in Shown(page.of) : e.slot = node[1]
Current(node) == CHOOSE e \in Shown(page.of) : e.slot = node[1]
\* Scrolled to and focused, which the product may answer; then looked at once more.
Focuses ==
  /\ step.pc = "resolved" /\ Returned("driver")
  /\ IF Same(Seen, step.expected) /\ Connected(step.node)
     THEN /\ watch' = [Observed EXCEPT !.queue = Append(@, "driver")]
          /\ step' = [step EXCEPT !.pc = "focused"]
          /\ Reacts
     ELSE watch' = Observed /\ Fails /\ UNCHANGED <<page, settled>>
  /\ UNCHANGED <<acted, steps>>

\* Links that leave the document, native submits and unfit controls are refused.
Refused(a, e) ==
  \/ a.kind = "click" /\ e.does \in {"leave", "load", "window", "submit"}
  \/ a.kind = "fill" /\ e.does # "type"
  \/ a.kind = "select" /\ e.does # "choose"
\* wrong: what the focus did to the page goes unnoticed
MayActUnseen(seen) == Connected(step.node) /\ ~Refused(step.act, Current(step.node))
MayAct(seen) == Same(seen, step.expected) /\ Connected(step.node) /\ ~Refused(step.act, Current(step.node))
Acts ==
  /\ step.pc = "focused" /\ Returned("driver")
  /\ watch' = Observed
  /\ IF MayAct(Seen)
     THEN acted' = [Effect("driver", step.node) EXCEPT !.read = Seen.page, !.expected = step.expected.page] /\ Reacts
     ELSE UNCHANGED <<acted, page, settled>>
  /\ Fails
  /\ UNCHANGED steps

\* Within the document at once; another document only with a checkpoint that the continuity checks accept.
Navigates ==
  /\ step.pc = "navigate"
  /\ \/ step.act.to \in {"here", "far"} /\ acted' = Effect("navigation", <<>>) /\ Reacts
     \/ step.act.to \in {"far", "bad"} /\ UNCHANGED <<acted, page, settled>>
  /\ Fails
  /\ UNCHANGED <<watch, steps>>
\* The condition is asked for until it holds or the time is over.
Condition(a, p) ==
  CASE a.until = "screen" -> Recognize(p) = a.screen
    [] a.until = "control" -> Resolves(a.control, page.of, [visible |-> TRUE, enabled |-> FALSE, static |-> FALSE]) # {}
    [] a.until = "changed" -> Fingerprint(p) # Fingerprint(step.expected.page)
Waits ==
  /\ step.pc = "wait"
  /\ \/ step' = [step EXCEPT !.pc = "asking"] /\ Enqueues("driver")
     \/ Fails /\ UNCHANGED watch
  /\ UNCHANGED <<page, settled, acted, steps>>
Asked ==
  /\ step.pc = "asking" /\ Returned("driver")
  /\ watch' = Observed
  /\ IF Condition(step.act, watch.read) THEN Fails ELSE step' = [step EXCEPT !.pc = "wait"]
  /\ UNCHANGED <<page, settled, acted, steps>>
\* A registered tool whose input fits runs until it answers: its time limit only raises the signal it was given.
CallsTool ==
  /\ step.pc = "tool_call"
  /\ IF step.act.fits THEN step' = [step EXCEPT !.pc = "tool"] ELSE Fails
  /\ UNCHANGED <<page, settled, watch, acted, steps>>
ToolAnswers == step.pc = "tool" /\ Fails /\ Reacts /\ UNCHANGED <<watch, acted, steps>>

\* A dynamic tool, resolved on what is shown now, acts at once; a click waits for the scroll to settle and is then made, looking at nothing.
ByTool(c, node, read) == acted' = [by |-> "tool", act |-> c, node |-> node, on |-> page.of, read |-> read, expected |-> read] /\ Reacts
Unfit(tool, e) == (tool = "fill" /\ e.does # "type") \/ (tool = "select" /\ e.does # "choose")
Command(c) ==
  /\ step.pc = "rest" /\ steps < MaxSteps
  /\ steps' = steps + 1
  /\ \E e \in Described(c.target, page.of, [visible |-> c.tool # "scroll", enabled |-> c.tool \in {"click", "fill", "select", "hover"}]) :
       LET node == Node(e, page.nodes)
       IN IF c.tool = "click"
          THEN step' = [pc |-> "commanded", act |-> c, read |-> page.of, node |-> node] /\ UNCHANGED <<page, settled, acted>>
          ELSE UNCHANGED step /\ IF Unfit(c.tool, e) THEN UNCHANGED <<page, settled, acted>> ELSE ByTool(c, node, page.of)
  /\ UNCHANGED watch
Clicks ==
  /\ step.pc = "commanded"
  /\ ByTool(step.act, step.node, step.read)
  /\ Fails
  /\ UNCHANGED <<watch, steps>>

PageNext ==
  \/ Changes \/ Scheduled \/ Reads \/ NoticedBySchedule
  \/ \E a \in Actions : Decide(a)
  \/ Decided \/ Perform \/ Looked \/ Focuses \/ Acts \/ Navigates \/ Waits \/ Asked \/ CallsTool \/ ToolAnswers
  \/ \E c \in Commands : Command(c)
  \/ Clicks
PageSpec == PageInit /\ [][PageNext]_pageVars

-----------------------------------------------------------------------------
(* When the driver acts on a control, the page it read last, after the      *)
(* control had the focus, looks as it did when the step was decided; there  *)
(* the control acted on is the only best match of the signed control,       *)
(* shown, enabled (but for a hover), neither private nor the SDK's own; and *)
(* no click unloads the page it falls on.  A dynamic tool never acts on     *)
(* what was private, hidden or the SDK's own when it was resolved.          *)
(* (driver.perform: "the journey was stopped instead of guessing")          *)
ActsOnWhatWasSeen ==
  /\ acted.by = "driver" =>
       /\ Fingerprint(acted.read) = Fingerprint(acted.expected)
       /\ \E e \in Shown(acted.read) :
            /\ e.slot = acted.node[1] /\ ~e.private /\ ~e.own /\ e.visible /\ (acted.act.kind # "hover" => e.enabled)
            /\ Best(acted.act.control, acted.read, Options(acted.act.kind)) = {e}
       /\ acted.act.kind = "click" =>
            \A e \in Shown(acted.on) : e.slot = acted.node[1] => e.does \notin {"leave", "load", "submit"}
  /\ acted.by = "tool" =>
       \E e \in Shown(acted.read) : e.slot = acted.node[1] /\ ~e.private /\ ~e.own /\ (acted.act.tool # "scroll" => e.visible)

(* What the driver's looks rest on: it compares fingerprints, and on pages  *)
(* with the same fingerprint a signed control must have the same best       *)
(* matches.  A fingerprint does not hold all that locators look at.         *)
TellsApart ==
  \A a \in Actions, p, q \in DOMAIN Pages :
    a.kind \in Touching /\ Fingerprint(p) = Fingerprint(q)
      => Best(a.control, p, Options(a.kind)) = Best(a.control, q, Options(a.kind))
=============================================================================
