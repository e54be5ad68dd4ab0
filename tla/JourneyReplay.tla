--------------------------- MODULE JourneyReplay ---------------------------
(***************************************************************************)
(* How the mapper learns a journey: the explorer lets a model work in the  *)
(* product until it claims a proof, the verifier replays what it recorded  *)
(* from a reset state, and a prober tries the blank form afterwards        *)
(* (server/src/mapper/explorer.ts, verifier.ts, proof.ts,                  *)
(* journey-evidence.ts, unique.ts, safety.ts, coverage-prober.ts, and the  *)
(* browser they share, livebox.ts).                                        *)
(*                                                                         *)
(* The product is external: a home screen and a form with a list of        *)
(* records, a first-visit dialog the server remembers, a basket the        *)
(* browser keeps in its storage, a menu, a sort order and two ways out.    *)
(***************************************************************************)
EXTENDS Naturals, Sequences, FiniteSets, SequencesExt

CONSTANTS Goals,      \* goal -> [wants: proof kind, names: what it mentions, doc: documented steps,
                      \*          uses: the controls, screens and kinds of proof the model tries under it]
          Profile,    \* the product is opened through a Chrome profile on disk
          Allow,      \* product.json opts in to creating
          MaxTurns,   \* bound: EXPLORER_MAX_STEPS
          MaxAlignmentRejections

VARIABLES data,       \* what the product's server keeps
          client,     \* box -> what its browser holds
          ex,         \* the exploration in hand
          learned     \* goal -> how far it is, and its journey
vars == <<data, client, ex, learned>>

None == "none"
Nothing == 99         \* an empty field
Kinds == {"text", "record_created", "screen_reached", "result_set_changed"}
Written == {"text", "record_created"}

-----------------------------------------------------------------------------
(* The product. *)

C(on, kind, never, mutating, away) == [on |-> on, kind |-> kind, never |-> never, mutating |-> mutating, away |-> away]
Controls == [open    |-> C("home", "click", FALSE, FALSE, FALSE), billing |-> C("home", "click", TRUE, FALSE, FALSE),
             advert  |-> C("home", "click", FALSE, FALSE, TRUE),  name    |-> C("form", "fill", FALSE, FALSE, FALSE),
             save    |-> C("form", "click", FALSE, TRUE, FALSE),  basket  |-> C("form", "click", FALSE, FALSE, FALSE),
             order   |-> C("form", "click", FALSE, FALSE, FALSE), more    |-> C("form", "click", FALSE, FALSE, FALSE),
             sort    |-> C("form", "select", FALSE, FALSE, FALSE), gotit  |-> C("form", "click", FALSE, FALSE, FALSE),
             leave   |-> C("form", "click", FALSE, FALSE, FALSE)]
Page(at, d, draft) == [at |-> at, draft |-> draft, dialog |-> at = "form" /\ ~d.greeted, menu |-> FALSE,
                       typed |-> Nothing, summary |-> FALSE, sorted |-> FALSE]
\* A world is what the server keeps and what one browser shows.
Arrive(w, at) == [w EXCEPT !.c = Page(at, w.d, w.c.draft)]
Saved(w) == IF w.c.typed = Nothing THEN w ELSE [w EXCEPT !.d.records = @ \cup {w.c.typed}, !.c.typed = Nothing]
Visible(w) ==
  LET known == Controls
  IN {c \in DOMAIN known : known[c].on = w.c.at /\ (c = "gotit" => w.c.dialog)}
Overlay(w) == (IF w.c.dialog THEN {<<"tour", 0>>} ELSE {}) \cup (IF w.c.menu THEN {<<"menu", 0>>} ELSE {})
Texts(w) ==
  IF w.c.at # "form" THEN {<<w.c.at, 0>>}
  ELSE {<<"record", n>> : n \in w.d.records} \cup Overlay(w) \cup (IF w.c.summary THEN {<<"summary", 0>>} ELSE {})
ListSignature(w) == <<w.d.records, w.c.sorted>>    \* of the form's list

-----------------------------------------------------------------------------
(* The browser. *)

\* A click that something covers is tried again once the dialog is out of the way.
Unblocked(w) == IF w.c.dialog THEN [w EXCEPT !.d.greeted = TRUE, !.c.dialog = FALSE] ELSE w
Press(w, c, n, submit) ==
  LET u == IF Controls[c].kind = "click" THEN Unblocked(w) ELSE w
  IN CASE c = "open" -> Arrive(u, "form")
       [] c = "name" -> IF submit THEN Saved([u EXCEPT !.c.typed = n]) ELSE [u EXCEPT !.c.typed = n]
       [] c = "save" -> Saved(u)
       [] c = "basket" -> [u EXCEPT !.c.draft = TRUE]
       [] c = "order" -> [u EXCEPT !.c.summary = u.c.draft]
       [] c = "more" -> [u EXCEPT !.c.menu = ~@]
       [] c = "sort" -> [u EXCEPT !.c.sorted = TRUE]
       [] c \in {"leave", "advert"} -> Arrive(u, "far")
       [] OTHER -> u

\* The profile on disk is one browser, however many boxes open it.
Box(b) == IF Profile THEN "explore" ELSE b
World(b) == [d |-> data, c |-> client[Box(b)]]
ResetStateInName(w) == Arrive(w, "home")
\* A box just opened on the profile counts as clean and is not cleared; storage is cleared only for the page's own origin.
ResetState(w) == Arrive([w EXCEPT !.c.draft = @ /\ (Profile \/ w.c.at = "far")], "home")

Number(value, tag) == CASE value = "fresh" -> tag [] value = "plain" -> 0 [] OTHER -> Nothing
\* A tag no record carries.
NewRunTag(w) == CHOOSE n \in 1 .. Cardinality(w.d.records) + 1 : n \notin w.d.records
Collapse(t, tag) == IF t = <<"record", tag>> THEN <<"fresh", 0>> ELSE t
Expand(t, tag) == IF t = <<"fresh", 0>> THEN <<"record", tag>> ELSE t

CheckAction(s) ==
  IF s.act = "navigate" THEN s.on # "far"
  ELSE ~Controls[s.on].never /\ (Controls[s.on].mutating => Allow)
Replayed(r, s, tag) ==
  IF ~CheckAction(s) THEN [r EXCEPT !.ok = FALSE]
  ELSE IF s.act = "navigate" THEN [r EXCEPT !.w = Arrive(r.w, s.on)]
  ELSE IF s.on \notin Visible(r.w) THEN [r EXCEPT !.ok = s.optional]
  ELSE [r EXCEPT !.w = Press(r.w, s.on, Number(s.value, tag), s.submit)]
RunProgram(w, steps, tag) ==
  FoldLeft(LAMBDA r, s : IF r.ok THEN Replayed(r, s, tag) ELSE r, [ok |-> TRUE, w |-> w], steps)

-----------------------------------------------------------------------------
(* Evidence. *)

Typing(s) == s.act \in {"fill", "select"}
ActsInPlace(s) == s.act = "click" /\ (Controls[s.on].mutating \/ s.from = s.to)
\* The steps before it only set the scene; 0 when there is no such step.
AssertedAction(steps, kind) ==
  IF kind = "result_set_changed" THEN LET i == SelectInSeq(steps, Typing) IN IF i = 0 THEN 1 ELSE i
  ELSE LET i == SelectInSeq(steps, LAMBDA s : Typing(s) \/ ActsInPlace(s))
       IN IF i = 0 THEN SelectInSeq(steps, LAMBDA s : s.act # "navigate") ELSE i
InferProofKind(g) == Goals[g].wants
ValidateGoalAlignment(j) ==
  /\ Goals[j.goal].names \cap ({s.on : s \in Range(j.steps)} \cup {s.to : s \in Range(j.steps)} \cup {j.text[1], j.url}) # {}
  /\ InferProofKind(j.goal) \in {j.kind, "text"}
  /\ j.kind = "screen_reached" => j.url \in Goals[j.goal].names
ValidateProof(t, w) == t \in Texts(w) /\ t \notin ex.atStart \cup ex.atAction /\ t \notin Overlay(w)

\* One replay from a world that has just been reset: did it prove the journey, and what does it leave.
Verification(w, j) ==
  LET tag == NewRunTag(w)
      first == AssertedAction(j.steps, j.kind)
      lead == RunProgram(w, SubSeq(j.steps, 1, first - 1), tag)
      run == RunProgram(lead.w, SubSeq(j.steps, IF first = 0 THEN 1 ELSE first, Len(j.steps)), tag)
      whole == RunProgram(w, j.steps, tag)
      text == Expand(j.text, tag)
  IN IF ~ValidateGoalAlignment(j) THEN [ok |-> FALSE, w |-> w]
     ELSE IF j.kind = "screen_reached" THEN
       [ok |-> whole.ok /\ whole.w.c.at # w.c.at /\ whole.w.c.at = j.url /\ j.required \subseteq Visible(whole.w), w |-> whole.w]
     ELSE IF ~lead.ok \/ (j.kind \in Written /\ (first = 0 \/ text \in Texts(lead.w))) THEN [ok |-> FALSE, w |-> lead.w]
     ELSE [ok |-> /\ run.ok
                  /\ IF j.kind \in Written THEN text \in Texts(run.w)
                     ELSE lead.w.c.at = "form" /\ run.w.c.at = "form" /\ ListSignature(lead.w) # ListSignature(run.w),
           w |-> run.w]
RequiredRuns(j) == IF j.kind = "record_created" THEN 3 ELSE 2

-----------------------------------------------------------------------------
NoWork == [phase |-> None, goal |-> None, steps |-> <<>>, atStart |-> {}, atAction |-> {}, based |-> FALSE,
           turns |-> 0, rejections |-> 0, tag |-> 0, runs |-> 0, journey |-> None]
Init ==
  /\ data = [records |-> {}, greeted |-> FALSE]
  /\ client = [b \in {"explore", "verify"} |-> Page("home", data, FALSE)]
  /\ ex = NoWork
  /\ learned = [g \in DOMAIN Goals |-> [is |-> "new", journey |-> None]]

Becomes(b, w) == data' = w.d /\ client' = [client EXCEPT ![Box(b)] = w.c]
Step(act, on, value, submit) == [act |-> act, on |-> on, value |-> value, submit |-> submit, optional |-> FALSE, from |-> None, to |-> None]
Recorded(s, w, u) == [s EXCEPT !.from = w.c.at, !.to = u.c.at]

\* The documented steps, as far as the live screen agrees.
Followed(w, doc) ==
  FoldLeft(LAMBDA r, s :
             LET next == RunProgram(r.w, <<s>>, 0)
             IN IF r.on /\ (s.act = "navigate" \/ s.on \in Visible(r.w)) /\ CheckAction(s) /\ next.ok
                THEN [r EXCEPT !.w = next.w, !.steps = Append(@, Recorded(s, r.w, next.w))] ELSE [r EXCEPT !.on = FALSE],
           [on |-> TRUE, w |-> w, steps |-> <<>>], doc)

Explore(g) ==
  /\ ex.phase = None /\ learned[g].is = "new"
  /\ LET w == ResetState(World("explore"))
         f == Followed(w, Goals[g].doc)
     IN /\ Becomes("explore", f.w)
        /\ ex' = [NoWork EXCEPT !.phase = "explore", !.goal = g, !.steps = f.steps, !.atStart = Texts(w), !.tag = NewRunTag(w),
                                !.based = Goals[g].doc # <<>>, !.atAction = IF Goals[g].doc # <<>> THEN Texts(w) ELSE {}]
  /\ UNCHANGED learned

Turn == ex.phase = "explore" /\ ex.turns < MaxTurns
\* The text before the first interaction.
Based(e) == IF e.based THEN e ELSE [e EXCEPT !.based = TRUE, !.atAction = Texts(World("explore"))]
Spent(e) == [e EXCEPT !.turns = @ + 1]

Refuses(c) == Controls[c].away \/ ~CheckAction(Step(Controls[c].kind, c, None, FALSE))
Refused ==
  /\ Turn
  /\ \E c \in Goals[ex.goal].uses \cap DOMAIN Controls :
       LET seen == c \in Visible(World("explore"))
       IN (seen => Refuses(c)) /\ ex' = Spent(IF seen THEN Based(ex) ELSE ex)
  /\ UNCHANGED <<data, client, learned>>

Act(c, value, submit) ==
  /\ Turn /\ c \in Goals[ex.goal].uses
  /\ Controls[c].kind # "fill" => value = None /\ ~submit
  /\ Controls[c].kind = "fill" => value # None
  /\ c \in Visible(World("explore")) /\ ~Refuses(c)
  /\ LET w == World("explore")
         s == Step(Controls[c].kind, c, value, submit)
         u == Press(w, c, Number(value, ex.tag), submit)
         left == u.c.at = "far"
     IN /\ Becomes("explore", IF left THEN Arrive(u, "home") ELSE u)
        /\ ex' = [Spent(Based(ex)) EXCEPT !.steps = IF left THEN <<>> ELSE Append(@, [Recorded(s, w, u) EXCEPT !.optional = c = "gotit"])]
  /\ UNCHANGED learned

GoToScreen(at) ==
  /\ Turn /\ at \in Goals[ex.goal].uses
  /\ LET w == World("explore")
         u == Arrive(w, at)
     IN Becomes("explore", u) /\ ex' = [Spent(ex) EXCEPT !.steps = Append(@, Recorded(Step("navigate", at, None, FALSE), w, u))]
  /\ UNCHANGED learned

Evidence(kind, t) ==
  LET w == World("explore")
  IN [goal |-> ex.goal, steps |-> ex.steps, kind |-> kind, text |-> Collapse(t, ex.tag), url |-> w.c.at,
      required |-> IF kind = "screen_reached" THEN Visible(w) ELSE {}]
Done(kind, t) ==
  /\ Turn /\ kind \in Goals[ex.goal].uses /\ (kind \notin Written => t = <<"none", 0>>)
  /\ LET j == Evidence(kind, t)
         proved == kind \in Written => ValidateProof(t, World("explore"))
     IN ex' = IF ~proved THEN Spent(ex)
              ELSE IF ValidateGoalAlignment(j) THEN [Spent(ex) EXCEPT !.phase = "verify", !.journey = j]
              ELSE IF ex.rejections + 1 < MaxAlignmentRejections THEN [Spent(ex) EXCEPT !.rejections = @ + 1]
              ELSE [ex EXCEPT !.phase = "fails"]
  /\ UNCHANGED <<data, client, learned>>

\* Giving up, stopping without a call, or a budget that is spent.
GiveUp ==
  /\ ex.phase \in {"explore", "fails"}
  /\ ex' = NoWork /\ learned' = [learned EXCEPT ![ex.goal].is = "failed"]
  /\ UNCHANGED <<data, client>>

VerifyJourney ==
  /\ ex.phase = "verify"
  /\ \E v \in {Verification(ResetState(World("verify")), ex.journey)} :
     LET last == ex.runs + 1 = RequiredRuns(ex.journey)
     IN /\ Becomes("verify", v.w)
        /\ ex' = IF ~v.ok THEN NoWork ELSE IF last THEN [ex EXCEPT !.phase = "probe"] ELSE [ex EXCEPT !.runs = @ + 1]
        /\ learned' = IF v.ok /\ ~last THEN learned
                      ELSE [learned EXCEPT ![ex.goal] = [is |-> IF v.ok THEN "verified" ELSE "broken", journey |-> ex.journey]]

\* The steps up to the first field, then the field left blank and what submits it.
ProbeCoverage ==
  /\ ex.phase = "probe"
  /\ LET steps == ex.journey.steps
         w == ResetState(World("verify"))
         tag == NewRunTag(w)
         field == SelectInSeq(steps, Typing)
         submits == IF field = 0 THEN {} ELSE {i \in field .. Len(steps) : (i = field /\ steps[i].submit) \/ (i > field /\ steps[i].act = "click")}
         end == CHOOSE i \in submits : \A k \in submits : i <= k
         prefix == RunProgram(w, SubSeq(steps, 1, field - 1), tag)
         probe == [SubSeq(steps, field, end) EXCEPT ![1].value = None]
     IN IF submits = {} THEN UNCHANGED <<data, client>>
        ELSE Becomes("verify", IF prefix.ok THEN RunProgram(prefix.w, probe, tag).w ELSE prefix.w)
  /\ ex' = NoWork /\ UNCHANGED learned

ProofTexts == {<<"none", 0>>} \cup Texts(World("explore"))
Next ==
  \/ \E g \in DOMAIN Goals : Explore(g)
  \/ \E c \in DOMAIN Controls, value \in {None, "plain", "fresh"}, submit \in BOOLEAN : Act(c, value, submit)
  \/ \E at \in {"home", "form"} : GoToScreen(at)
  \/ \E kind \in Kinds, t \in ProofTexts : Done(kind, t)
  \/ Refused \/ GiveUp \/ VerifyJourney \/ ProbeCoverage
Spec == Init /\ [][Next]_vars

-----------------------------------------------------------------------------
\* A verified journey can be shown to somebody who has never used the product in this browser: whatever the explorations and
\* replays since have left on the server, replaying it with nothing in the browser's storage proves it once more. The journey
\* that counts the button of a first-visit dialog among the controls of its screen is left out: the next to answer it ends it.
VerifiedReplays ==
  \A g \in DOMAIN Goals : learned[g].is = "verified" /\ "gotit" \notin learned[g].journey.required =>
    Verification(Arrive([World("verify") EXCEPT !.c.draft = FALSE], "home"), learned[g].journey).ok
=============================================================================
