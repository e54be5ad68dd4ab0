--------------------------- MODULE JourneyTraining ---------------------------
(***************************************************************************)
(* How a product learns its journeys (server/src/onboarding.ts and         *)
(* mapper/): a training run explores, replays, shortens and stages them    *)
(* one by one, people review them, restore older graphs and demonstrate    *)
(* journeys by hand, the mapper's command line replays and publishes them. *)
(* All of them load the same graph file, work on their copy for minutes    *)
(* and write it back whole; no lock is held in between.  Publication puts  *)
(* the approved journeys of a copy in front of visitors.                   *)
(***************************************************************************)
EXTENDS Naturals, Sequences, FiniteSets, SequencesExt

CONSTANTS Goals,
          FoundPaths,     \* by goal: the paths an exploration may record
          Capability,     \* by goal
          Wordings,       \* the narrations a model may give, NoWords without one
          NoWords,
          Hands,          \* requests of reviewers, runs of the command line
          KeepVersions,   \* KEEP_VERSIONS
          MaxRuns, MaxActs

VARIABLES graph,      \* product-graph.json, its journeys by goal
          versions,   \* graph-versions/, oldest first
          flows,      \* what the live agent replays, by goal
          run,        \* the run that trains the product: one at a time, the server's or the command line's
          waiting,    \* reworks that wait for a run to end: [goal, after]
          hand,       \* what each request is doing, with its copy of the graph
          acts,       \* bound: requests so far
          proven,     \* history: what passed every replay asked for
          reviewed    \* history: what a person approved

trainingVars == <<graph, versions, flows, run, waiting, hand, acts, proven, reviewed>>

NoJourney == [status |-> "none"]
NoContent == [path |-> <<>>]
NoGraph == [g \in Goals |-> NoJourney]

(***************************************************************************)
(* What the checksum of a revision covers, and when an approval holds.     *)
(***************************************************************************)
Content(j) == [path |-> j.path, words |-> j.words, needs |-> j.needs]
\* wrong: the approval names a revision, whatever it says by now
CurrentByRevision(j) == j.approval.state = "approved" /\ j.approval.rev = j.rev
CurrentApproval(j) == CurrentByRevision(j) /\ j.approval.content = Content(j)

Verified(j) == j.status = "verified"
Publishable(j) == Verified(j) /\ CurrentApproval(j)
Flows(G) == [g \in Goals |-> IF Publishable(G[g]) THEN Content(G[g]) ELSE NoContent]
\* Everything the machine verified has been approved.
ReleaseReady(G) ==
  /\ \E g \in Goals : Verified(G[g])
  /\ \A g \in Goals : Verified(G[g]) => CurrentApproval(G[g])

\* prepareJourneyRevision: a candidate waits for a person, whatever was there before.
Prepared(j, previous) ==
  LET rev == IF previous.status = "none" THEN 1 ELSE previous.rev + 1
  IN [j EXCEPT !.rev = rev, !.approval = [state |-> "pending", rev |-> rev, content |-> Content(j)]]
Reviewed(j, state) == [j EXCEPT !.approval = [state |-> state, rev |-> j.rev, content |-> Content(j)]]
Candidate(p) == [path |-> p, words |-> NoWords, needs |-> {}, status |-> "broken", rev |-> 0,
                 approval |-> [state |-> "pending", rev |-> 0, content |-> NoContent]]
Judged(j, ok) == [j EXCEPT !.status = IF ok THEN "verified" ELSE "broken"]

\* pruneJourneys: a broken journey goes when a verified one has its capability.
Pruned(G) ==
  [g \in Goals |->
    IF G[g].status = "broken" /\ \E h \in Goals : Verified(G[h]) /\ Capability[h] = Capability[g]
    THEN NoJourney ELSE G[g]]

\* deriveComposition: the longest verified journey a path starts with becomes a
\* precondition of it, which is part of what the checksum covers.
Needed(G, g) ==
  {h \in Goals \ {g} :
    /\ Verified(G[h]) /\ IsStrictPrefix(G[h].path, G[g].path)
    /\ \A k \in Goals \ {g} : Verified(G[k]) /\ IsStrictPrefix(G[k].path, G[g].path) => Len(G[k].path) =< Len(G[h].path)}
Composed(G) ==
  [g \in Goals |->
    IF Verified(G[g]) /\ Needed(G, g) # {}
    THEN [G[g] EXCEPT !.needs = @ \cup {CHOOSE h \in Needed(G, g) : TRUE}] ELSE G[g]]

\* What is left of a path when steps are dropped, unless another journey has it.
Kept(p, I) == LET at == SetToSortSeq(I, LAMBDA x, y : x < y) IN [k \in 1 .. Len(at) |-> p[at[k]]]
Shortened(p, G) ==
  {Kept(p, I) : I \in SUBSET DOMAIN p \ {{}}} \ ({<<>>} \cup {G[g].path : g \in {h \in Goals : G[h].status # "none"}})

(***************************************************************************)
(* saveGraph archives what is in the file, then replaces it.               *)
(***************************************************************************)
SavedWith(G) ==
  /\ graph' = G
  /\ LET kept == Append(versions, graph)
     IN versions' = SubSeq(kept, IF Len(kept) > KeepVersions THEN 2 ELSE 1, Len(kept))
NotSaved == UNCHANGED <<graph, versions>>

IdleHand == [pc |-> "idle", mem |-> NoGraph, goal |-> "none", rework |-> FALSE]
NoRun == [on |-> FALSE, nr |-> 0, cli |-> FALSE, paused |-> FALSE, cancel |-> FALSE, pc |-> "ended", only |-> {}, left |-> {},
          check |-> {}, demoted |-> FALSE, mem |-> NoGraph, goal |-> "none", cand |-> NoJourney, was |-> <<>>]

TrainingInit ==
  /\ graph = NoGraph /\ versions = <<>> /\ flows = [g \in Goals |-> NoContent]
  /\ run = NoRun /\ waiting = {} /\ hand = [h \in Hands |-> IdleHand] /\ acts = 0
  /\ proven = {} /\ reviewed = {}

-----------------------------------------------------------------------------
(***************************************************************************)
(* A training run: of the server, which people pause, resume and cancel,   *)
(* or of the command line, which publishes what it learned.  `only' is the *)
(* goal of a rework, empty for a full run.                                 *)
(***************************************************************************)
History == <<proven, reviewed>>
Starts(only, cli) ==
  run' = IF run.on \/ run.nr = MaxRuns THEN run
         ELSE [NoRun EXCEPT !.on = TRUE, !.nr = run.nr + 1, !.cli = cli, !.only = only, !.pc = IF cli THEN "ingest" ELSE "access"]

\* POST onboard, one run per product; and the learn command.
Onboard ==
  /\ ~run.on /\ run.nr < MaxRuns
  /\ \E cli \in BOOLEAN : Starts({}, cli)
  /\ NotSaved /\ UNCHANGED <<flows, waiting, hand, acts, History>>

Ends == run' = [NoRun EXCEPT !.nr = run.nr]
To(pc) == run' = [run EXCEPT !.pc = pc]

\* The stages that begin with a progress report: it waits while the run is paused and throws
\* once it is cancelled.
Reported == {"access", "ingest", "survey", "plan", "explore", "verify", "review", "complete"}
Reaches(pc) == run.on /\ run.pc = pc
Enters(pc) == Reaches(pc) /\ ~run.paused /\ ~run.cancel
Cancelled ==
  /\ run.on /\ run.cancel /\ run.pc \in Reported
  /\ Ends
  /\ NotSaved /\ UNCHANGED <<flows, waiting, hand, acts, History>>
\* The sign-in does not replay, a model, a browser or the disk fails, access is lost on the way.
FailsRun ==
  /\ run.on /\ run.pc \notin {"review", "next", "complete"} /\ ~run.paused
  /\ Ends
  /\ NotSaved /\ UNCHANGED <<flows, waiting, hand, acts, History>>

Access ==
  /\ Enters("access")
  /\ To("ingest")
  /\ NotSaved /\ UNCHANGED <<flows, waiting, hand, acts, History>>

\* The content is indexed, then the graph is read: what the run works on from here is its copy.
Ingest ==
  /\ Enters("ingest")
  /\ run' = [run EXCEPT !.mem = graph, !.pc = "survey"]
  /\ NotSaved /\ UNCHANGED <<flows, waiting, hand, acts, History>>

\* A rework may find the screens there and report nothing.  A rework and the command line
\* replay no journey of the graph.
Survey ==
  /\ Reaches("survey") /\ (run.only = {} => Enters("survey"))
  /\ IF run.cli THEN NotSaved ELSE SavedWith(run.mem)
  /\ run' = [run EXCEPT !.pc = "recheck",
                        !.check = IF run.only # {} \/ run.cli THEN {} ELSE {g \in Goals : Verified(run.mem[g])}]
  /\ UNCHANGED <<flows, waiting, hand, acts, History>>

(***************************************************************************)
(* verifyJourneyRepeatedly: every replay asked for passes, or one fails.   *)
(***************************************************************************)
Proves(g, j, ok) == proven' = IF ok THEN proven \cup {[goal |-> g, path |-> j.path]} ELSE proven

Recheck ==
  /\ Reaches("recheck")
  /\ \E g \in run.check, ok \in BOOLEAN :
       /\ run' = [run EXCEPT !.check = @ \ {g}, !.mem[g] = Judged(run.mem[g], ok), !.demoted = @ \/ ~ok]
       /\ Proves(g, run.mem[g], ok)
  /\ NotSaved /\ UNCHANGED <<flows, waiting, hand, acts, reviewed>>
Rechecked ==
  /\ Reaches("recheck") /\ run.check = {}
  /\ IF run.demoted THEN SavedWith(run.mem) ELSE NotSaved
  /\ run' = [run EXCEPT !.pc = "plan", !.demoted = FALSE]
  /\ UNCHANGED <<flows, waiting, hand, acts, History>>

\* The planner takes no learned goal from a document, and asks the model for others, which it
\* may repeat all the same.
Proposals == SUBSET Goals
Plan ==
  /\ Enters("plan")
  /\ \E goals \in IF run.only # {} THEN {run.only} ELSE Proposals :
       run' = [run EXCEPT !.left = goals, !.pc = "next"]
  /\ NotSaved /\ UNCHANGED <<flows, waiting, hand, acts, History>>
NextJob ==
  /\ Reaches("next")
  /\ \E g \in run.left : run' = [run EXCEPT !.goal = g, !.left = @ \ {g}, !.pc = "explore"]
  /\ NotSaved /\ UNCHANGED <<flows, waiting, hand, acts, History>>

Explore ==
  /\ Enters("explore")
  /\ \/ To("review") /\ SavedWith(run.mem)                  \* not learned: the backlog says why
     \/ \E p \in FoundPaths[run.goal] : run' = [run EXCEPT !.cand = Candidate(p), !.pc = "verify"] /\ NotSaved
  /\ UNCHANGED <<flows, waiting, hand, acts, History>>

Verify ==
  /\ Enters("verify")
  /\ \E ok \in BOOLEAN :
       /\ run' = [run EXCEPT !.cand = Judged(run.cand, ok),
                             !.pc = IF ~ok THEN "stage" ELSE IF Len(run.cand.path) > 1 THEN "minimize" ELSE "describe"]
       /\ Proves(run.goal, run.cand, ok)
  /\ NotSaved /\ UNCHANGED <<flows, waiting, hand, acts, reviewed>>

\* Every shorter path was replayed once to be kept; the one kept is then verified in full.
Minimize ==
  /\ Reaches("minimize")
  /\ \/ To("describe")
     \/ \E p \in Shortened(run.cand.path, run.mem) :
          run' = [run EXCEPT !.was = run.cand.path, !.cand.path = p, !.pc = "verifyShort"]
  /\ NotSaved /\ UNCHANGED <<flows, waiting, hand, acts, History>>
\* Where the short path fails the long one is put back, verified again, and taken as it comes out.
VerifyShort ==
  /\ run.on /\ run.pc \in {"verifyShort", "verifyAgain"}
  /\ \E ok \in BOOLEAN :
       /\ run' = IF ok \/ run.pc = "verifyAgain" THEN [run EXCEPT !.cand = Judged(run.cand, ok), !.was = <<>>, !.pc = "describe"]
                 ELSE [run EXCEPT !.cand.path = run.was, !.pc = "verifyAgain"]
       /\ Proves(run.goal, run.cand, ok)
  /\ NotSaved /\ UNCHANGED <<flows, waiting, hand, acts, reviewed>>

\* describeMeaning and describeSteps; a model that fails leaves the journey without words.
Narrated(j) == {[j EXCEPT !.words = w] : w \in Wordings \cup {NoWords}}
Describe ==
  /\ Reaches("describe")
  /\ \E j \in Narrated(run.cand) : run' = [run EXCEPT !.cand = j, !.pc = "stage"]
  /\ NotSaved /\ UNCHANGED <<flows, waiting, hand, acts, History>>

Stage ==
  /\ Reaches("stage")
  /\ LET G == [run.mem EXCEPT ![run.goal] = Prepared(run.cand, run.mem[run.goal])]
     IN SavedWith(G) /\ run' = [run EXCEPT !.mem = G, !.cand = NoJourney, !.goal = "none", !.pc = "review"]
  /\ UNCHANGED <<flows, waiting, hand, acts, History>>
Report ==
  /\ Enters("review")
  /\ To("next")
  /\ NotSaved /\ UNCHANGED <<flows, waiting, hand, acts, History>>

FinishRun ==
  /\ Reaches("next") /\ run.left = {}
  /\ LET G == Composed(Pruned(run.mem))
     IN /\ SavedWith(G) /\ run' = [run EXCEPT !.mem = G, !.pc = "complete"]
        /\ flows' = IF run.cli THEN Flows(G) ELSE flows
  /\ UNCHANGED <<waiting, hand, acts, History>>
CompleteRun ==
  /\ Enters("complete")
  /\ Ends
  /\ NotSaved /\ UNCHANGED <<flows, waiting, hand, acts, History>>

\* POST training/:action reaches the server's run.
Control ==
  /\ run.on /\ ~run.cli /\ acts < MaxActs /\ acts' = acts + 1
  /\ \/ ~run.paused /\ run' = [run EXCEPT !.paused = TRUE]
     \/ run.paused /\ run' = [run EXCEPT !.paused = FALSE]
     \/ ~run.cancel /\ run' = [run EXCEPT !.cancel = TRUE, !.paused = FALSE]
  /\ NotSaved /\ UNCHANGED <<flows, waiting, hand, History>>

-----------------------------------------------------------------------------
(***************************************************************************)
(* People and the command line: load, work on the copy, save, publish.     *)
(***************************************************************************)
Begins(h) == hand[h].pc = "idle" /\ acts < MaxActs /\ acts' = acts + 1
Does(h, to) == hand' = [hand EXCEPT ![h] = to]
Loaded(h, G, pc) == Does(h, [IdleHand EXCEPT !.pc = pc, !.mem = G])
Others == UNCHANGED <<run, waiting>>

\* POST journeys/:id/review.  Only what the machine verified can be approved.
Review(h) ==
  /\ Begins(h)
  /\ \E g \in Goals, state \in {"approved", "rejected", "rework_requested"} :
       /\ graph[g].status # "none" /\ (state = "approved" => Verified(graph[g]))
       /\ Does(h, [pc |-> "save", mem |-> [graph EXCEPT ![g] = Reviewed(graph[g], state)], goal |-> g,
                   rework |-> state = "rework_requested"])
       /\ reviewed' = IF state = "approved" THEN reviewed \cup {[goal |-> g, content |-> Content(graph[g])]} ELSE reviewed
       /\ run' = IF state = "rework_requested" /\ run.on /\ ~run.cli THEN [run EXCEPT !.paused = TRUE] ELSE run
  /\ NotSaved /\ UNCHANGED <<flows, waiting, proven>>

\* POST graph/restore, and the publish command: a version or the file, as it was.
Restore(h) ==
  /\ Begins(h)
  /\ \E G \in Range(versions) : Loaded(h, G, "restore")
  /\ NotSaved /\ Others /\ UNCHANGED <<flows, History>>
PublishCommand(h) ==
  /\ Begins(h)
  /\ Loaded(h, graph, "publish")
  /\ NotSaved /\ Others /\ UNCHANGED <<flows, History>>

\* reverify replays every journey it loaded, whatever their state, and publishes.
Reverify(h) ==
  /\ Begins(h)
  /\ \E ok \in [Goals -> BOOLEAN] :
       LET G == [g \in Goals |-> IF graph[g].status = "none" THEN NoJourney ELSE Judged(graph[g], ok[g])]
       IN /\ Loaded(h, Composed(Pruned(G)), "restore")
          /\ proven' = proven \cup {[goal |-> g, path |-> graph[g].path] : g \in {k \in Goals : graph[k].status # "none" /\ ok[k]}}
  /\ NotSaved /\ Others /\ UNCHANGED <<flows, reviewed>>

\* finishDemonstration: the recording passed every replay before the graph is loaded.
Demonstrate(h) ==
  /\ Begins(h)
  /\ \E g \in Goals : \E p \in FoundPaths[g] : \E j \in Narrated(Judged(Candidate(p), TRUE)) :
       /\ proven' = proven \cup {[goal |-> g, path |-> p]}
       /\ Loaded(h, Composed([graph EXCEPT ![g] = Prepared(j, graph[g])]), "demonstrated")
  /\ NotSaved /\ Others /\ UNCHANGED <<flows, reviewed>>

Save(h) ==
  /\ hand[h].pc \in {"save", "restore", "demonstrated"}
  /\ SavedWith(hand[h].mem)
  /\ IF hand[h].pc = "restore" \/ (hand[h].pc = "save" /\ ReleaseReady(hand[h].mem))
     THEN Does(h, [hand[h] EXCEPT !.pc = "publish"])
     ELSE Does(h, IF hand[h].rework THEN [hand[h] EXCEPT !.pc = "rework"] ELSE IdleHand)
  /\ Others /\ UNCHANGED <<flows, acts, History>>

Publish(h) ==
  /\ hand[h].pc = "publish"
  /\ flows' = Flows(hand[h].mem)
  /\ Does(h, IF hand[h].rework THEN [hand[h] EXCEPT !.pc = "rework"] ELSE IdleHand)
  /\ NotSaved /\ Others /\ UNCHANGED <<acts, History>>

\* A rework cancels the run and starts one of its own when that has ended.
Rework(h) ==
  /\ hand[h].pc = "rework"
  /\ run' = IF run.on /\ ~run.cli THEN [run EXCEPT !.cancel = TRUE, !.paused = FALSE] ELSE run
  /\ waiting' = waiting \cup {[goal |-> hand[h].goal, after |-> run.nr]}
  /\ Does(h, IdleHand)
  /\ NotSaved /\ UNCHANGED <<flows, acts, History>>
StartRework ==
  /\ \E w \in waiting :
       /\ ~(run.on /\ (run.nr = w.after \/ run.cli))
       /\ Starts({w.goal}, FALSE)
       /\ waiting' = waiting \ {w}
  /\ NotSaved /\ UNCHANGED <<flows, hand, acts, History>>

TrainingNext ==
  \/ Onboard \/ Cancelled \/ FailsRun \/ Access \/ Ingest \/ Survey \/ Recheck \/ Rechecked \/ Plan \/ NextJob \/ Explore
  \/ Verify \/ Minimize \/ VerifyShort \/ Describe \/ Stage \/ Report \/ FinishRun \/ CompleteRun \/ Control \/ StartRework
  \/ \E h \in Hands : Review(h) \/ Restore(h) \/ PublishCommand(h) \/ Reverify(h) \/ Demonstrate(h) \/ Save(h) \/ Publish(h) \/ Rework(h)

TrainingSpec == TrainingInit /\ [][TrainingNext]_trainingVars

-----------------------------------------------------------------------------
TrainingTypeOK ==
  /\ \A g \in Goals : graph[g].status \in {"none", "verified", "broken"}
  /\ Len(versions) =< KeepVersions /\ run.nr =< MaxRuns /\ acts =< MaxActs
  /\ \A h \in Hands : hand[h].pc \in {"idle", "save", "restore", "demonstrated", "publish", "rework"}

(***************************************************************************)
(* What visitors are shown was replayed as often as asked, step for step,  *)
(* and then approved by a person with its narration and preconditions as   *)
(* they are (server.ts review: "bound to one exact journey revision        *)
(* checksum"): whatever copies of the graph overtake each other, whatever  *)
(* is shortened, restored, replayed or recombined.                         *)
(***************************************************************************)
LiveIsReviewed ==
  \A g \in Goals : flows[g] # NoContent =>
    /\ [goal |-> g, content |-> flows[g]] \in reviewed
    /\ [goal |-> g, path |-> flows[g].path] \in proven
=============================================================================
